---- MODULE Spec2Model ----
(***************************************************************************)
(* The graph execution runtime of the editor: NodeGraphExecutor            *)
(* (editor/src/node_graph_executor.rs).  The controller decides when the   *)
(* compiled graph must be re-sent, dispatches execution requests with      *)
(* increasing ids, keeps a ledger (futures) of the pending ones and routes *)
(* the results the engine sends back.  The engine (NodeRuntime) lives in   *)
(* runtime.rs and is modelled at its interface: it reads the request       *)
(* channel in FIFO order and may answer pending executions in any order.   *)
(***************************************************************************)
EXTENDS Integers, Sequences, FiniteSets, TLC

\* Number of executions the controller dispatches in a run of the model.
MaxExec == 2
\* Number of side-channel messages that wait in the request channel at a time.
MaxSideChannel == 1
\* Number of times the result channel may deliver one execution result.
MaxDeliveries == 2
\* Direct calls of process_node_graph_output in a row.
MaxCalls == 3

\* Option::None, for every Option-typed field.
None == "None"

\* Values of document.network_interface.network_hash().
NetworkHashes == {0, 1}
\* Nodes that can be chosen for inspection.
NodeIds == {"X"}
InspectTargets == {None} \cup NodeIds
DocumentIds == {1}
\* FileType of an export.
FileTypes == {"Svg", "Png", "Jpg", "Ascii"}
\* The file types the modelled controller exports to.
ExportFileTypes == {"Svg", "Ascii"}
\* Outputs the engine produces for a successful execution: the RenderOutputType
\* of a TaggedValue::RenderOutput, or "Other" for any other TaggedValue.
Frames == {"F1"}
\* RenderOutputType::Buffer: "Buffer" has 4 * width * height bytes and the image
\* codec encodes it, "BufferShort" has fewer bytes, so that RgbaImage::from_raw
\* gives None, "BufferUnencodable" has the bytes and the PNG and JPEG encoders
\* fail on it.
Buffers == {"Buffer", "BufferShort", "BufferUnencodable"}
Outputs == {"Svg", "Texture", "Other"} \cup Buffers \cup Frames
\* The outputs the modelled engine chooses from.
EngineOutputs == {"Svg"}
\* cfg(feature = "gpu")
FeatureGpu == TRUE

VARIABLES
    current_execution_id,      \* NodeGraphExecutor.current_execution_id
    futures,                   \* NodeGraphExecutor.futures: Seq of <<id, ExecutionContext>>
    node_graph_hash,           \* NodeGraphExecutor.node_graph_hash
    previous_node_to_inspect,  \* NodeGraphExecutor.previous_node_to_inspect
    last_svg_canvas,           \* NodeGraphExecutor.last_svg_canvas
    requests,                  \* runtime_io outbound channel (controller -> engine)
    results,                   \* runtime_io inbound channel (engine -> controller)
    engine,                    \* the engine: its graph, the executions it has accepted
                               \* and whether it still holds the receiving end
                               \* of the request channel
    vector_modify,             \* document.network_interface vector_modify data: the
                               \* ids of the executions it came from ({}: empty map)
    click_targets,             \* document.network_interface click targets, likewise
    responses,                 \* messages the controller's last operation added to the
                               \* response queue
    ret,                       \* what the controller's last operation returned
    fault,                     \* the panic that stopped the controller, if any
    hist,                      \* history: what was sent, delivered and applied
    call,                      \* the arguments of a function that is called directly
    instrumented,              \* the Instrumented built from a network, if any
    fsm_state,                 \* TorchTool.fsm_state
    tool_data                  \* TorchTool.data

vars == <<current_execution_id, futures, node_graph_hash, previous_node_to_inspect,
          last_svg_canvas, requests, results, engine, vector_modify, click_targets,
          responses, ret, fault, hist, call, instrumented, fsm_state, tool_data>>

executorVars == <<current_execution_id, futures, node_graph_hash,
                  previous_node_to_inspect, last_svg_canvas>>
documentVars == <<vector_modify, click_targets>>
directVars == <<call, instrumented>>
toolVars == <<fsm_state, tool_data>>

----------------------------------------------------------------------------
(* Messages and records *)

\* RenderConfig, reduced to the fields the router reads.
RenderConfig(for_export, for_eyedropper) ==
    [for_export |-> for_export, for_eyedropper |-> for_eyedropper]

ExecutionContext(render_config, export_config, document_id) ==
    [render_config |-> render_config, export_config |-> export_config,
     document_id |-> document_id]

ExecutionRequest(execution_id, render_config, export_file_type) ==
    [type |-> "ExecutionRequest", execution_id |-> execution_id,
     render_config |-> render_config, export_file_type |-> export_file_type]

GraphUpdate(network, node_to_inspect) ==
    [type |-> "GraphUpdate", network |-> network, node_to_inspect |-> node_to_inspect]

\* The side-channel messages of the request channel.
FontCaches == {"fonts"}
EditorPreferencesValues == {"preferences"}
FontCacheUpdate(font_cache) == [type |-> "FontCacheUpdate", font_cache |-> font_cache]
EditorPreferencesUpdate(editor_preferences) ==
    [type |-> "EditorPreferencesUpdate", editor_preferences |-> editor_preferences]
IsSideChannel(m) == m.type \in {"FontCacheUpdate", "EditorPreferencesUpdate"}

IsGraphUpdate(m) == m.type = "GraphUpdate"
IsExecutionRequest(m) == m.type = "ExecutionRequest"

GraphUpdatesIn(s) == SelectSeq(s, IsGraphUpdate)
ExecutionRequestsIn(s) == SelectSeq(s, IsExecutionRequest)

\* The execution ids of the ExecutionRequests among the messages s.
SentIds(s) ==
    LET e == ExecutionRequestsIn(s) IN [i \in 1..Len(e) |-> e[i].execution_id]

\* The ids of the ledger, front to back.
LedgerIds == [i \in 1..Len(futures) |-> futures[i][1]]

----------------------------------------------------------------------------
(* Initial state *)

NoHistory ==
    [sentIds |-> <<>>,          \* execution ids of the ExecutionRequests sent, in order
     lastGraphUpdate |-> <<>>,  \* the most recent GraphUpdate sent (<<>>: none yet)
     adopted |-> <<>>,          \* the pair update_node_graph last sent a GraphUpdate for
     cycle |-> <<>>,            \* the evaluation cycles since the inspect target changed
     delivered |-> {},          \* ids the engine has answered
     ordered |-> TRUE,          \* the engine answered in increasing id order so far
     processedMax |-> -1,       \* largest id whose result was matched to its entry
     staleApplied |-> {},       \* ids whose data was applied after a newer id
     matched |-> <<>>,          \* the last match: result id, popped entry, request
     failed |-> {},             \* ids whose failed result was processed
     lost |-> {},               \* results the last poll drained and did not process
     dispatched |-> {},         \* for each execution not yet answered, the last
                                \* GraphUpdate sent when it was dispatched
     artwork |-> <<>>,          \* the svg of every UpdateDocumentArtwork that
                                \* process_node_graph_output, called directly, added
     uuids |-> {}]              \* the values generate_uuid has returned

\* NodeGraphExecutor::new with an empty document and an idle engine.
InitExecutor ==
    /\ current_execution_id = 0
    /\ futures = <<>>
    /\ node_graph_hash = 0
    /\ previous_node_to_inspect = None
    /\ last_svg_canvas = None
    /\ requests = <<>>
    /\ results = <<>>
    /\ engine = [graph |-> <<>>, pending |-> {}, connected |-> TRUE]
    /\ vector_modify = {}
    /\ click_targets = {}
    /\ responses = <<>>
    /\ ret = None
    /\ fault = None
    /\ hist = NoHistory

\* TorchTool::default().
InitTool ==
    /\ fsm_state = "Ready"
    /\ tool_data = [drag_start |-> <<0, 0>>, selected_node |-> <<>>]

Init ==
    /\ InitExecutor
    /\ InitTool
    /\ call = <<>>
    /\ instrumented = <<>>

----------------------------------------------------------------------------
(* Dispatch *)

\* queue_execution that hands out its id without advancing the counter.
queue_execution_no_increment(id, render_config, export_file_type) ==
    [execution_id |-> id,
     next_id |-> id,
     sent |-> <<ExecutionRequest(id, render_config, export_file_type)>>]

\* queue_execution that advances the counter but sends no request.
queue_execution_no_send(id, render_config, export_file_type) ==
    [execution_id |-> id, next_id |-> id + 1, sent |-> <<>>]

\* queue_execution: the id it returns, the counter after it and the message it sends.
queue_execution(id, render_config, export_file_type) ==
    [execution_id |-> id,
     next_id |-> id + 1,
     sent |-> <<ExecutionRequest(id, render_config, export_file_type)>>]

\* update_node_graph without the ignore_hash override.
update_node_graph_unforced(hash, inspect, network_hash, node_to_inspect, ignore_hash) ==
    IF network_hash # hash \/ inspect # node_to_inspect
    THEN [node_graph_hash |-> network_hash,
          previous_node_to_inspect |-> node_to_inspect,
          sent |-> <<GraphUpdate(network_hash, node_to_inspect)>>]
    ELSE [node_graph_hash |-> hash, previous_node_to_inspect |-> inspect, sent |-> <<>>]

\* update_node_graph that adopts the fingerprint but not the inspect target.
update_node_graph_keeps_inspect(hash, inspect, network_hash, node_to_inspect, ignore_hash) ==
    IF network_hash # hash \/ inspect # node_to_inspect \/ ignore_hash
    THEN [node_graph_hash |-> network_hash,
          previous_node_to_inspect |-> inspect,
          sent |-> <<GraphUpdate(network_hash, node_to_inspect)>>]
    ELSE [node_graph_hash |-> hash, previous_node_to_inspect |-> inspect, sent |-> <<>>]

\* update_node_graph that compares the fingerprint only.
update_node_graph_hash_only(hash, inspect, network_hash, node_to_inspect, ignore_hash) ==
    IF network_hash # hash \/ ignore_hash
    THEN [node_graph_hash |-> network_hash,
          previous_node_to_inspect |-> node_to_inspect,
          sent |-> <<GraphUpdate(network_hash, node_to_inspect)>>]
    ELSE [node_graph_hash |-> hash, previous_node_to_inspect |-> inspect, sent |-> <<>>]

\* update_node_graph: the cache after the call and the messages it sends.
update_node_graph(hash, inspect, network_hash, node_to_inspect, ignore_hash) ==
    IF network_hash # hash \/ inspect # node_to_inspect \/ ignore_hash
    THEN [node_graph_hash |-> network_hash,
          previous_node_to_inspect |-> node_to_inspect,
          sent |-> <<GraphUpdate(network_hash, node_to_inspect)>>]
    ELSE [node_graph_hash |-> hash,
          previous_node_to_inspect |-> inspect,
          sent |-> <<>>]

\* A ledger that takes new entries at the front.
push_front(q, e) == <<e>> \o q

\* futures.push_back
push_back(q, e) == Append(q, e)

\* A font cache update that takes an execution id and a ledger entry.
update_font_cache_queued(font_cache) ==
    /\ requests' = Append(requests, FontCacheUpdate(font_cache))
    /\ current_execution_id' = current_execution_id + 1
    /\ futures' = push_back(futures,
                            <<current_execution_id,
                              ExecutionContext(RenderConfig(FALSE, FALSE), None, 1)>>)
    /\ UNCHANGED <<node_graph_hash, previous_node_to_inspect, last_svg_canvas,
                   results, engine, documentVars, directVars, responses, ret, fault,
                   hist, toolVars>>

update_font_cache(font_cache) ==
    /\ requests' = Append(requests, FontCacheUpdate(font_cache))
    /\ UNCHANGED <<executorVars, results, engine, documentVars, directVars, responses, ret,
                   fault, hist, toolVars>>

update_editor_preferences(editor_preferences) ==
    /\ requests' = Append(requests, EditorPreferencesUpdate(editor_preferences))
    /\ UNCHANGED <<executorVars, results, engine, documentVars, directVars, responses, ret,
                   fault, hist, toolVars>>

\* History of update_node_graph calls.  A cycle starts with an unforced call
\* that changes the inspect target while the fingerprint is the stored one, and
\* goes on over the unforced calls that keep that fingerprint and target; it
\* counts the calls (1, or 2 for more) and keeps the GraphUpdates they sent.
NextCycle(network_hash, node_to_inspect, ignore_hash, sent) ==
    IF ignore_hash THEN <<>>
    ELSE IF hist.cycle # <<>> /\ hist.cycle[1].hash = network_hash
            /\ hist.cycle[1].inspect = node_to_inspect
         THEN <<[hist.cycle[1] EXCEPT !.sent = @ \o sent, !.calls = 2]>>
         ELSE IF network_hash = node_graph_hash
                 /\ node_to_inspect # previous_node_to_inspect
         THEN <<[hash |-> network_hash, inspect |-> node_to_inspect,
                 sent |-> sent, calls |-> 1]>>
         ELSE <<>>

AdoptedAfter(network_hash, node_to_inspect, sent) ==
    IF sent = <<>> THEN hist.adopted
    ELSE <<[hash |-> network_hash, inspect |-> node_to_inspect]>>

LastGraphUpdateAfter(sent) ==
    IF GraphUpdatesIn(sent) = <<>> THEN hist.lastGraphUpdate
    ELSE LET g == GraphUpdatesIn(sent) IN <<g[Len(g)]>>

\* A dispatch that sends the ExecutionRequest ahead of the GraphUpdate.
Dispatch_request_first(sent, q, context) ==
    /\ current_execution_id' = q.next_id
    /\ requests' = requests \o q.sent \o sent
    /\ futures' = push_back(futures, <<q.execution_id, context>>)
    /\ ret' = "Ok"
    /\ responses' = <<>>
    /\ UNCHANGED <<last_svg_canvas, results, engine, documentVars, directVars, fault,
            toolVars>>

\* The part every submission shares: send, push the ledger entry, record history.
Dispatch(sent, q, context) ==
    /\ current_execution_id' = q.next_id
    /\ requests' = requests \o sent \o q.sent
    /\ futures' = push_back(futures, <<q.execution_id, context>>)
    /\ ret' = "Ok"
    /\ responses' = <<>>
    /\ UNCHANGED <<last_svg_canvas, results, engine, documentVars, directVars, fault,
            toolVars>>

\* A render of the current graph that re-sends the graph first.
submit_current_node_graph_evaluation_refreshes(document_id) ==
    LET render_config == RenderConfig(FALSE, FALSE)
        sent == <<GraphUpdate(node_graph_hash, previous_node_to_inspect)>>
        q == queue_execution(current_execution_id, render_config, None)
    IN  /\ Dispatch(sent, q, ExecutionContext(render_config, None, document_id))
        /\ UNCHANGED <<node_graph_hash, previous_node_to_inspect, toolVars>>
        /\ hist' = [hist EXCEPT
                      !.sentIds = @ \o SentIds(q.sent),
                      !.lastGraphUpdate = LastGraphUpdateAfter(sent),
                      !.dispatched = @ \cup {[execution_id |-> q.execution_id,
                                              graph |-> LastGraphUpdateAfter(sent)]}]

submit_current_node_graph_evaluation(document_id) ==
    LET render_config == RenderConfig(FALSE, FALSE)
        q == queue_execution(current_execution_id, render_config, None)
    IN  /\ Dispatch(<<>>, q, ExecutionContext(render_config, None, document_id))
        /\ UNCHANGED <<node_graph_hash, previous_node_to_inspect, toolVars>>
        /\ hist' = [hist EXCEPT
                      !.sentIds = @ \o SentIds(q.sent),
                      !.dispatched = @ \cup {[execution_id |-> q.execution_id,
                                              graph |-> hist.lastGraphUpdate]}]

submit_node_graph_evaluation(network_hash, node_to_inspect, ignore_hash, document_id) ==
    LET u == update_node_graph(node_graph_hash, previous_node_to_inspect,
                               network_hash, node_to_inspect, ignore_hash)
        render_config == RenderConfig(FALSE, FALSE)
        q == queue_execution(current_execution_id, render_config, None)
    IN  /\ node_graph_hash' = u.node_graph_hash
        /\ previous_node_to_inspect' = u.previous_node_to_inspect
        /\ Dispatch(u.sent, q, ExecutionContext(render_config, None, document_id))
        /\ hist' = [hist EXCEPT
                      !.sentIds = @ \o SentIds(q.sent),
                      !.lastGraphUpdate = LastGraphUpdateAfter(u.sent),
                      !.dispatched = @ \cup {[execution_id |-> q.execution_id,
                                              graph |-> LastGraphUpdateAfter(u.sent)]},
                      !.adopted = AdoptedAfter(network_hash, node_to_inspect, u.sent),
                      !.cycle = NextCycle(network_hash, node_to_inspect, ignore_hash,
                                          u.sent)]

submit_eyedropper_preview(document_id) ==
    LET render_config == RenderConfig(FALSE, TRUE)
        q == queue_execution(current_execution_id, render_config, None)
    IN  /\ Dispatch(<<>>, q, ExecutionContext(render_config, None, document_id))
        /\ UNCHANGED <<node_graph_hash, previous_node_to_inspect, toolVars>>
        /\ hist' = [hist EXCEPT
                      !.sentIds = @ \o SentIds(q.sent),
                      !.dispatched = @ \cup {[execution_id |-> q.execution_id,
                                              graph |-> hist.lastGraphUpdate]}]

\* An export that sends its GraphUpdate before it looks for the bounding box.
submit_document_export_sends_first(network_hash, file_type, has_bounds, document_id) ==
    IF ~has_bounds
    THEN /\ ret' = "Err: No bounding box"
         /\ responses' = <<>>
         /\ requests' = Append(requests, GraphUpdate(network_hash, None))
         /\ UNCHANGED <<executorVars, results, engine, documentVars, directVars,
                        fault, hist, toolVars>>
    ELSE LET render_config == RenderConfig(TRUE, FALSE)
             sent == <<GraphUpdate(network_hash, None)>>
             q == queue_execution(current_execution_id, render_config, file_type)
         IN  /\ Dispatch(sent, q, ExecutionContext(render_config, file_type, document_id))
             /\ UNCHANGED <<node_graph_hash, previous_node_to_inspect, toolVars>>
             /\ hist' = [hist EXCEPT
                           !.sentIds = @ \o SentIds(q.sent),
                           !.lastGraphUpdate = LastGraphUpdateAfter(sent),
                           !.dispatched = @ \cup {[execution_id |-> q.execution_id,
                                                   graph |-> LastGraphUpdateAfter(sent)]}]

\* has_bounds: whether the document yields a bounding box for the export region.
submit_document_export(network_hash, file_type, has_bounds, document_id) ==
    IF ~has_bounds
    THEN /\ ret' = "Err: No bounding box"
         /\ responses' = <<>>
         /\ UNCHANGED <<executorVars, requests, results, engine, documentVars, directVars,
                        fault, hist, toolVars>>
    ELSE LET render_config == RenderConfig(TRUE, FALSE)
             sent == <<GraphUpdate(network_hash, None)>>
             q == queue_execution(current_execution_id, render_config, file_type)
         IN  /\ Dispatch(sent, q, ExecutionContext(render_config, file_type, document_id))
             /\ UNCHANGED <<node_graph_hash, previous_node_to_inspect, toolVars>>
             /\ hist' = [hist EXCEPT
                           !.sentIds = @ \o SentIds(q.sent),
                           !.lastGraphUpdate = LastGraphUpdateAfter(sent),
                           !.dispatched = @ \cup {[execution_id |-> q.execution_id,
                                                   graph |-> LastGraphUpdateAfter(sent)]}]

----------------------------------------------------------------------------
(* Result handlers.  Each returns [ok, msgs, ...]: whether it returned Ok and
   the messages it added to the response queue.  Messages that carry data of
   an execution are tagged with its id. *)

Msg(name) == [msg |-> name]
MsgOf(name, id) == [msg |-> name, execution_id |-> id]

MetadataMessages(id) ==
    <<MsgOf("DocumentMessage::UpdateUpstreamTransforms", id),
      MsgOf("DocumentMessage::UpdateClickTargets", id),
      MsgOf("DocumentMessage::UpdateClipTargets", id),
      Msg("DocumentMessage::RenderScrollbars"),
      Msg("DocumentMessage::RenderRulers"),
      Msg("OverlaysMessage::Draw")>>

process_node_graph_output(output, id, canvas) ==
    IF output = "Svg"
    THEN [ok |-> TRUE, err |-> None, last_svg_canvas |-> None,
          msgs |-> <<MsgOf("FrontendMessage::UpdateImageData", id),
                     MsgOf("FrontendMessage::UpdateDocumentArtwork", id)>>
                   \o MetadataMessages(id)]
    ELSE IF output \in Frames
    THEN IF canvas = output
         THEN [ok |-> TRUE, err |-> None, last_svg_canvas |-> canvas,
               msgs |-> MetadataMessages(id)]
         ELSE [ok |-> TRUE, err |-> None, last_svg_canvas |-> output,
               msgs |-> <<MsgOf("FrontendMessage::UpdateDocumentArtwork", id)>>
                        \o MetadataMessages(id)]
    ELSE IF output = "Texture"
    THEN [ok |-> TRUE, err |-> None, last_svg_canvas |-> canvas,
          msgs |-> MetadataMessages(id)]
    ELSE [ok |-> FALSE, err |-> "Invalid node graph output type",
          last_svg_canvas |-> canvas, msgs |-> <<>>]

\* A preview handler that rejects what it cannot sample.
process_eyedropper_preview_strict(output, id) ==
    IF FeatureGpu /\ output \in Buffers
    THEN [ok |-> TRUE, err |-> None,
          msgs |-> <<MsgOf("EyedropperToolMessage::PreviewImage", id)>>]
    ELSE [ok |-> FALSE, err |-> "Invalid node graph output type", msgs |-> <<>>]

process_eyedropper_preview(output, id) ==
    IF FeatureGpu /\ output \in Buffers
    THEN [ok |-> TRUE, err |-> None,
          msgs |-> <<MsgOf("EyedropperToolMessage::PreviewImage", id)>>]
    ELSE [ok |-> TRUE, err |-> None, msgs |-> <<>>]

\* The message of the error process_export returns for a text-art export of
\* vector markup.
AsciiRequiresRaster ==
    "ASCII export requires raster output. Please ensure your document contains raster content or use PNG/JPG export."

\* process_export that converts vector markup for every file type but Svg.
process_export_converts_ascii(output, file_type, id) ==
    IF output = "Svg"
    THEN IF file_type = "Svg"
         THEN [ok |-> TRUE, err |-> None,
               msgs |-> <<MsgOf("FrontendMessage::TriggerSaveFile", id)>>]
         ELSE [ok |-> TRUE, err |-> None,
               msgs |-> <<MsgOf("FrontendMessage::TriggerExportImage", id)>>]
    ELSE IF FeatureGpu /\ output \in Buffers /\ file_type # "Svg"
    THEN IF output = "BufferShort"
         THEN [ok |-> FALSE, err |-> "Failed to create image buffer for export",
               msgs |-> <<>>]
         ELSE IF file_type = "Png" /\ output = "BufferUnencodable"
         THEN [ok |-> FALSE, err |-> "Failed to encode PNG", msgs |-> <<>>]
         ELSE IF file_type = "Jpg" /\ output = "BufferUnencodable"
         THEN [ok |-> FALSE, err |-> "Failed to encode JPG", msgs |-> <<>>]
         ELSE [ok |-> TRUE, err |-> None,
               msgs |-> <<MsgOf("FrontendMessage::TriggerSaveFile", id)>>]
    ELSE [ok |-> FALSE, err |-> "Incorrect render type for exporting to an SVG",
          msgs |-> <<>>]

process_export(output, file_type, id) ==
    IF output = "Svg"
    THEN IF file_type = "Svg"
         THEN [ok |-> TRUE, err |-> None,
               msgs |-> <<MsgOf("FrontendMessage::TriggerSaveFile", id)>>]
         ELSE IF file_type = "Ascii"
         THEN [ok |-> FALSE, err |-> AsciiRequiresRaster, msgs |-> <<>>]
         ELSE [ok |-> TRUE, err |-> None,
               msgs |-> <<MsgOf("FrontendMessage::TriggerExportImage", id)>>]
    ELSE IF FeatureGpu /\ output \in Buffers /\ file_type # "Svg"
    THEN IF output = "BufferShort"
         THEN [ok |-> FALSE, err |-> "Failed to create image buffer for export",
               msgs |-> <<>>]
         ELSE IF file_type = "Png" /\ output = "BufferUnencodable"
         THEN [ok |-> FALSE, err |-> "Failed to encode PNG", msgs |-> <<>>]
         ELSE IF file_type = "Jpg" /\ output = "BufferUnencodable"
         THEN [ok |-> FALSE, err |-> "Failed to encode JPG", msgs |-> <<>>]
         ELSE [ok |-> TRUE, err |-> None,
               msgs |-> <<MsgOf("FrontendMessage::TriggerSaveFile", id)>>]
    ELSE [ok |-> FALSE, err |-> "Incorrect render type for exporting to an SVG",
          msgs |-> <<>>]

\* The values process_export is called with directly.  A raster buffer is
\* its byte length, its dimensions and whether the image codec encodes it.
SvgOutput(svg) == [tagged |-> "RenderOutput", data |-> "Svg", svg |-> svg]
BufferOutput(len, width, height, encodes) ==
    [tagged |-> "RenderOutput", data |-> "Buffer", len |-> len, width |-> width,
     height |-> height, encodes |-> encodes]
TextureOutput == [tagged |-> "RenderOutput", data |-> "Texture"]
OtherOutput == [tagged |-> "None", data |-> None]

NodeGraphOutputs ==
    {SvgOutput("<svg/>"), TextureOutput, OtherOutput}
    \cup {BufferOutput(len, 1, 1, e) : len \in {0, 4}, e \in BOOLEAN}

ExportConfigs ==
    [file_type : FileTypes, name : {"doc"}, size : {<<2, 3>>}, scale_factor : {1, 2},
     transparent_background : BOOLEAN, artboard_name : {None, "A"},
     artboard_count : 0..2]

\* FileType::to_mime for the types an image is exported as.
to_mime(file_type) ==
    CASE file_type = "Png" -> "image/png"
      [] file_type = "Jpg" -> "image/jpeg"
      [] file_type = "Svg" -> "image/svg+xml"

file_extension(file_type) ==
    CASE file_type = "Svg" -> "svg"
      [] file_type = "Png" -> "png"
      [] file_type = "Jpg" -> "jpg"
      [] file_type = "Ascii" -> "svg"

\* A base name that takes the artboard name whenever there is one.
base_name_every_artboard(export_config) ==
    IF export_config.artboard_name # None
    THEN export_config.name \o " - " \o export_config.artboard_name
    ELSE export_config.name

base_name(export_config) ==
    IF export_config.artboard_name # None /\ export_config.artboard_count > 1
    THEN export_config.name \o " - " \o export_config.artboard_name
    ELSE export_config.name

\* RgbaImage::from_raw: an image when the buffer holds width * height pixels.
from_raw(width, height, len) == len >= 4 * width * height

Failed(error) == [ok |-> FALSE, err |-> error, msgs |-> <<>>]
Added1(message) == [ok |-> TRUE, err |-> None, msgs |-> <<message>>]

\* process_export with the whole ExportConfig and the content of its messages.
process_export_full(node_graph_output, export_config) ==
    LET file_type == export_config.file_type
        name == base_name(export_config) \o "." \o file_extension(file_type)
        SaveFile(content) ==
            Added1([msg |-> "FrontendMessage::TriggerSaveFile", name |-> name,
                    content |-> content])
    IN  IF node_graph_output.tagged = "RenderOutput" /\ node_graph_output.data = "Svg"
        THEN IF file_type = "Svg"
             THEN SaveFile(node_graph_output.svg)
             ELSE IF file_type = "Ascii"
             THEN Failed(AsciiRequiresRaster)
             ELSE Added1([msg |-> "FrontendMessage::TriggerExportImage",
                          svg |-> node_graph_output.svg, name |-> name,
                          mime |-> to_mime(file_type),
                          size |-> <<export_config.size[1] * export_config.scale_factor,
                                     export_config.size[2] * export_config.scale_factor>>])
        ELSE IF /\ FeatureGpu
                /\ node_graph_output.tagged = "RenderOutput"
                /\ node_graph_output.data = "Buffer"
                /\ file_type # "Svg"
        THEN IF ~from_raw(node_graph_output.width, node_graph_output.height,
                          node_graph_output.len)
             THEN Failed("Failed to create image buffer for export")
             ELSE IF file_type = "Png"
             THEN IF node_graph_output.encodes
                  THEN SaveFile([codec |-> "Png",
                                 alpha |-> export_config.transparent_background])
                  ELSE Failed("Failed to encode PNG")
             ELSE IF file_type = "Jpg"
             THEN IF node_graph_output.encodes
                  THEN SaveFile([codec |-> "Jpeg", alpha |-> FALSE])
                  ELSE Failed("Failed to encode JPG")
             ELSE SaveFile([codec |-> "AsciiSvg", alpha |-> FALSE])
        ELSE Failed("Incorrect render type for exporting to an SVG")

\* The canvas frames an output may carry, and the outputs
\* process_node_graph_output is called with directly.
CanvasFrames == {"F1", "F2", "F3"}
\* The fields of a frame; matrix is what format_transform_matrix makes of its
\* transform.
SurfaceFrame(frame) ==
    IF frame = "F1" THEN [surface_id |-> 1, x |-> 800, y |-> 600, matrix |-> ""]
    ELSE IF frame = "F2" THEN [surface_id |-> 1, x |-> 400, y |-> 300, matrix |-> ""]
    ELSE [surface_id |-> 2, x |-> 800, y |-> 600, matrix |-> "matrix(2,0,0,2,0,0)"]
CanvasFrameOutput(frame) ==
    [tagged |-> "RenderOutput", data |-> "CanvasFrame", frame |-> frame]
RenderedOutputs ==
    {SvgOutput("<svg/>"), TextureOutput, OtherOutput, BufferOutput(4, 1, 1, TRUE)}
    \cup {CanvasFrameOutput(f) : f \in CanvasFrames}

\* The svg that stands for a canvas frame in the document artwork.
Placeholder(frame) ==
    LET f == SurfaceFrame(frame)
        transform == IF f.matrix = "" THEN ""
                     ELSE " transform=\"" \o f.matrix \o "\""
    IN  "<svg><foreignObject width=\"" \o ToString(f.x) \o "\" height=\""
        \o ToString(f.y) \o "\"" \o transform
        \o "><div data-canvas-placeholder=\"" \o ToString(f.surface_id)
        \o "\" data-is-viewport=\"true\"></div></foreignObject></svg>"

UpdateDocumentArtwork(svg) ==
    [msg |-> "FrontendMessage::UpdateDocumentArtwork", svg |-> svg]

\* The messages process_node_graph_output adds after the artwork.
RenderMetadataMessages ==
    <<Msg("DocumentMessage::UpdateUpstreamTransforms"),
      Msg("DocumentMessage::UpdateClickTargets"),
      Msg("DocumentMessage::UpdateClipTargets"),
      Msg("DocumentMessage::RenderScrollbars"),
      Msg("DocumentMessage::RenderRulers"),
      Msg("OverlaysMessage::Draw")>>

\* process_node_graph_output that keeps last_svg_canvas when it sends an svg.
process_node_graph_output_keeps_canvas(node_graph_output, canvas) ==
    IF node_graph_output.tagged # "RenderOutput"
    THEN [ok |-> FALSE, err |-> "Invalid node graph output type",
          last_svg_canvas |-> canvas, msgs |-> <<>>]
    ELSE IF node_graph_output.data = "Svg"
    THEN [ok |-> TRUE, err |-> None, last_svg_canvas |-> canvas,
          msgs |-> <<Msg("FrontendMessage::UpdateImageData"),
                     UpdateDocumentArtwork(node_graph_output.svg)>>
                   \o RenderMetadataMessages]
    ELSE IF node_graph_output.data = "CanvasFrame"
    THEN IF canvas = node_graph_output.frame
         THEN [ok |-> TRUE, err |-> None, last_svg_canvas |-> canvas,
               msgs |-> RenderMetadataMessages]
         ELSE [ok |-> TRUE, err |-> None, last_svg_canvas |-> node_graph_output.frame,
               msgs |-> <<UpdateDocumentArtwork(Placeholder(node_graph_output.frame))>>
                        \o RenderMetadataMessages]
    ELSE IF node_graph_output.data = "Texture"
    THEN [ok |-> TRUE, err |-> None, last_svg_canvas |-> canvas,
          msgs |-> RenderMetadataMessages]
    ELSE [ok |-> FALSE, err |-> "Invalid node graph output type",
          last_svg_canvas |-> canvas, msgs |-> <<>>]

\* process_node_graph_output with the svg of the artwork it sends.
process_node_graph_output_full(node_graph_output, canvas) ==
    IF node_graph_output.tagged # "RenderOutput"
    THEN [ok |-> FALSE, err |-> "Invalid node graph output type",
          last_svg_canvas |-> canvas, msgs |-> <<>>]
    ELSE IF node_graph_output.data = "Svg"
    THEN [ok |-> TRUE, err |-> None, last_svg_canvas |-> None,
          msgs |-> <<Msg("FrontendMessage::UpdateImageData"),
                     UpdateDocumentArtwork(node_graph_output.svg)>>
                   \o RenderMetadataMessages]
    ELSE IF node_graph_output.data = "CanvasFrame"
    THEN IF canvas = node_graph_output.frame
         THEN [ok |-> TRUE, err |-> None, last_svg_canvas |-> canvas,
               msgs |-> RenderMetadataMessages]
         ELSE [ok |-> TRUE, err |-> None, last_svg_canvas |-> node_graph_output.frame,
               msgs |-> <<UpdateDocumentArtwork(Placeholder(node_graph_output.frame))>>
                        \o RenderMetadataMessages]
    ELSE IF node_graph_output.data = "Texture"
    THEN [ok |-> TRUE, err |-> None, last_svg_canvas |-> canvas,
          msgs |-> RenderMetadataMessages]
    ELSE [ok |-> FALSE, err |-> "Invalid node graph output type",
          last_svg_canvas |-> canvas, msgs |-> <<>>]

IsUpdateDocumentArtwork(m) == m.msg = "FrontendMessage::UpdateDocumentArtwork"

\* The svgs of the UpdateDocumentArtwork messages among msgs, in order.
ArtworkIn(msgs) ==
    LET a == SelectSeq(msgs, IsUpdateDocumentArtwork)
    IN  [k \in 1..Len(a) |-> a[k].svg]

\* A direct call of process_node_graph_output; call lists the outputs of the
\* calls so far.
ProcessNodeGraphOutputOf(node_graph_output) ==
    LET h == process_node_graph_output_full(node_graph_output, last_svg_canvas)
    IN  /\ last_svg_canvas' = h.last_svg_canvas
        /\ responses' = h.msgs
        /\ ret' = IF h.ok THEN "Ok" ELSE "Err: " \o h.err
        /\ call' = Append(call, node_graph_output)
        /\ hist' = [hist EXCEPT !.artwork = @ \o ArtworkIn(h.msgs)]
        /\ UNCHANGED <<current_execution_id, futures, node_graph_hash,
                       previous_node_to_inspect, requests, results, engine,
                       documentVars, instrumented, fault, toolVars>>

\* A dispatch that does not look at render_config.for_eyedropper.
Handle_without_preview(context, output, id, canvas) ==
    IF context.export_config # None
    THEN LET h == process_export(output, context.export_config, id)
         IN  [handler |-> "process_export", ok |-> h.ok, err |-> h.err,
              msgs |-> h.msgs, last_svg_canvas |-> canvas]
    ELSE LET h == process_node_graph_output(output, id, canvas)
         IN  [handler |-> "process_node_graph_output", ok |-> h.ok, err |-> h.err,
              msgs |-> h.msgs, last_svg_canvas |-> h.last_svg_canvas]

\* The purpose handler chosen from the popped ExecutionContext.
Handle(context, output, id, canvas) ==
    IF context.export_config # None
    THEN LET h == process_export(output, context.export_config, id)
         IN  [handler |-> "process_export", ok |-> h.ok, err |-> h.err,
              msgs |-> h.msgs, last_svg_canvas |-> canvas]
    ELSE IF context.render_config.for_eyedropper
    THEN LET h == process_eyedropper_preview(output, id)
         IN  [handler |-> "process_eyedropper_preview", ok |-> h.ok, err |-> h.err,
              msgs |-> h.msgs, last_svg_canvas |-> canvas]
    ELSE LET h == process_node_graph_output(output, id, canvas)
         IN  [handler |-> "process_node_graph_output", ok |-> h.ok, err |-> h.err,
              msgs |-> h.msgs, last_svg_canvas |-> h.last_svg_canvas]

----------------------------------------------------------------------------
(* poll_node_graph_evaluation *)

\* A retire step that is an `if`, not a loop: it retires one entry at most.
retire_up_to_once(q, execution_id) ==
    IF q # <<>> /\ Head(q)[1] < execution_id THEN Tail(q) ELSE q

\* A retire loop that also drops the entry of the result's own id.
RECURSIVE retire_up_to_inclusive(_, _)
retire_up_to_inclusive(q, execution_id) ==
    IF q # <<>> /\ Head(q)[1] <= execution_id
    THEN retire_up_to_inclusive(Tail(q), execution_id)
    ELSE q

\* while let Some(&(fid, _)) = futures.front() { if fid < id { pop_front } else { break } }
RECURSIVE retire_up_to(_, _)
retire_up_to(q, execution_id) ==
    IF q # <<>> /\ Head(q)[1] < execution_id
    THEN retire_up_to(Tail(q), execution_id)
    ELSE q

\* A data-panel message that does not look at the stored inspect target.
DataPanelMessage_ignores_target(inspect, inspect_result) ==
    IF inspect_result # None
    THEN [msg |-> "DataPanelMessage::UpdateLayout", inspect_result |-> inspect_result]
    ELSE Msg("DataPanelMessage::ClearLayout")

\* The data-panel message that ends a successfully handled result.
DataPanelMessage(inspect, inspect_result) ==
    IF inspect # None /\ inspect_result # None
    THEN [msg |-> "DataPanelMessage::UpdateLayout", inspect_result |-> inspect_result]
    ELSE Msg("DataPanelMessage::ClearLayout")

\* An error branch that leaves the vector_modify data in place.
evaluation_failed_keeps_vector_modify(st, error) ==
    [st EXCEPT !.click_targets = {},
               !.ret = "Err: Node graph evaluation failed:\n" \o error, !.stop = TRUE]

\* The error branch of both arms: clear the click targets and the vector_modify
\* data, return Err(format!("Node graph evaluation failed:\n{e}")).
evaluation_failed(st, error) ==
    [st EXCEPT !.click_targets = {}, !.vector_modify = {},
               !.ret = "Err: Node graph evaluation failed:\n" \o error, !.stop = TRUE]

\* One ExecutionResponse.  st is the state the loop carries; stop says that the
\* function returned (or panicked) while handling this response.
ExecutionResponseArm(st, r) ==
    LET id == r.execution_id
        drawn == [st EXCEPT !.responses = Append(@, Msg("OverlaysMessage::Draw"))]
    IN
    IF ~r.result.ok
    THEN evaluation_failed([drawn EXCEPT !.hist.failed = @ \cup {id}], r.result.error)
    ELSE
    LET applied == [drawn EXCEPT
                      !.responses = Append(@, MsgOf("FrontendMessage", id)),
                      !.vector_modify = {id},
                      !.hist.staleApplied =
                          IF id < st.hist.processedMax THEN @ \cup {id} ELSE @]
        retired == retire_up_to(st.futures, id)
    IN
    IF retired = <<>>
    THEN [applied EXCEPT !.futures = retired, !.fault = "InvalidGenerationId",
                         !.ret = "panic", !.stop = TRUE]
    ELSE
    LET fid == Head(retired)[1]
        execution_context == Head(retired)[2]
        popped == [applied EXCEPT !.futures = Tail(retired)]
    IN
    IF fid # id
    THEN [popped EXCEPT !.fault = "Missmatch in execution id", !.ret = "panic",
                        !.stop = TRUE]
    ELSE
    LET h == Handle(execution_context, r.result.output, id, st.last_svg_canvas)
        handled == [popped EXCEPT
                      !.responses = @ \o h.msgs,
                      !.last_svg_canvas = h.last_svg_canvas,
                      !.hist.processedMax = IF id > @ THEN id ELSE @,
                      !.hist.matched =
                          <<[execution_id |-> id, entry |-> Head(retired),
                             request |-> r.request, handler |-> h.handler,
                             handled |-> h.ok]>>]
    IN
    IF ~h.ok
    THEN [handled EXCEPT !.ret = "Err: " \o h.err, !.stop = TRUE]
    ELSE [handled EXCEPT
            !.responses = @ \o
                <<[msg |-> "DeferMessage::TriggerGraphRun", execution_id |-> id,
                   document_id |-> execution_context.document_id],
                  DataPanelMessage(previous_node_to_inspect, r.inspect_result)>>]

\* A compilation arm that drops the partial delta of a failed compilation.
CompilationResponseArm_drops_delta(st, r) ==
    IF ~r.ok
    THEN evaluation_failed(st, r.error)
    ELSE [st EXCEPT
            !.responses = @ \o <<[msg |-> "NodeGraphMessage::UpdateTypes",
                                  resolved_types |-> "full",
                                  node_graph_errors |-> r.node_graph_errors],
                                 Msg("NodeGraphMessage::SendGraph")>>]

\* One CompilationResponse.
CompilationResponseArm(st, r) ==
    IF ~r.ok
    THEN evaluation_failed(
             [st EXCEPT
                !.responses = @ \o <<[msg |-> "NodeGraphMessage::UpdateTypes",
                                      resolved_types |-> "incomplete",
                                      node_graph_errors |-> r.node_graph_errors],
                                     Msg("NodeGraphMessage::SendGraph")>>],
             r.error)
    ELSE [st EXCEPT
            !.responses = @ \o <<[msg |-> "NodeGraphMessage::UpdateTypes",
                                  resolved_types |-> "full",
                                  node_graph_errors |-> r.node_graph_errors],
                                 Msg("NodeGraphMessage::SendGraph")>>]

\* The results of a batch that are dropped when the loop returns early.
Dropped(rs) ==
    {[type |-> rs[i].type,
      execution_id |-> IF rs[i].type = "ExecutionResponse" THEN rs[i].execution_id
                       ELSE -1] : i \in 1..Len(rs)}

\* for response in results { match response { ... } }
RECURSIVE PollLoop(_, _)
PollLoop(st, rs) ==
    IF rs = <<>> THEN st
    ELSE LET next == IF Head(rs).type = "ExecutionResponse"
                     THEN ExecutionResponseArm(st, Head(rs))
                     ELSE CompilationResponseArm(st, Head(rs))
         IN  IF next.stop
             THEN [next EXCEPT !.hist.lost = Dropped(Tail(rs))]
             ELSE PollLoop(next, Tail(rs))

\* What the loop starts from: the executor and the document as they are, an
\* empty response queue, Ok to return.
PollStart ==
    [futures |-> futures, last_svg_canvas |-> last_svg_canvas,
     vector_modify |-> vector_modify, click_targets |-> click_targets,
     responses |-> <<>>, ret |-> "Ok", fault |-> None,
     hist |-> [hist EXCEPT !.lost = {}], stop |-> FALSE]

poll_node_graph_evaluation ==
    LET end == PollLoop(PollStart, results)
    IN  /\ results' = <<>>
        /\ futures' = end.futures
        /\ last_svg_canvas' = end.last_svg_canvas
        /\ vector_modify' = end.vector_modify
        /\ click_targets' = end.click_targets
        /\ responses' = end.responses
        /\ ret' = end.ret
        /\ fault' = end.fault
        /\ hist' = end.hist
        /\ UNCHANGED <<current_execution_id, node_graph_hash,
                       previous_node_to_inspect, requests, engine, directVars,
                                   toolVars>>

----------------------------------------------------------------------------
(* The engine, at its interface *)

ExecutionResponse(request, result, inspect_result) ==
    [type |-> "ExecutionResponse", execution_id |-> request.execution_id,
     result |-> result, inspect_result |-> inspect_result, request |-> request]

\* The message of an error the engine reports.
EngineError == "e"

CompilationResponse(ok) ==
    [type |-> "CompilationResponse", ok |-> ok,
     node_graph_errors |-> IF ok THEN "none" ELSE "some",
     error |-> IF ok THEN None ELSE EngineError]

\* Whether the engine can compile a network: network BrokenNetwork has a type error.
BrokenNetwork == 1
Compiles(network) == network # BrokenNetwork

\* The engine reads the requests in FIFO order: a GraphUpdate replaces its graph and
\* is answered with a CompilationResponse, an ExecutionRequest is accepted to run
\* against the graph the engine holds at that point, a font cache or preferences
\* update is taken in and not answered.
RECURSIVE Receive(_, _)
Receive(e, rs) ==
    IF rs = <<>> THEN e
    ELSE LET m == Head(rs) IN
         IF IsGraphUpdate(m)
         THEN Receive([e EXCEPT !.graph = <<m>>,
                                !.out = Append(@, CompilationResponse(Compiles(m.network)))],
                      Tail(rs))
         ELSE IF IsSideChannel(m)
         THEN Receive(e, Tail(rs))
         ELSE Receive([e EXCEPT !.pending = @ \cup
                         {[request |-> m,
                           graph |-> e.graph,
                           inspect |-> IF e.graph = <<>> THEN None
                                       ELSE e.graph[1].node_to_inspect]}],
                      Tail(rs))

EngineReceive ==
    /\ requests # <<>>
    /\ LET e == Receive([graph |-> engine.graph, pending |-> engine.pending,
                         out |-> <<>>], requests)
       IN  /\ engine' = [engine EXCEPT !.graph = e.graph, !.pending = e.pending]
           /\ results' = results \o e.out
    /\ requests' = <<>>
    /\ UNCHANGED <<executorVars, documentVars, directVars, responses, ret, fault, hist,
            toolVars>>

\* The engine answers one of the executions it has accepted, in any order.
EngineRespond(p, result) ==
    /\ p \in engine.pending
    /\ engine' = [engine EXCEPT !.pending = @ \ {p}]
    /\ results' = Append(results, ExecutionResponse(p.request, result, p.inspect))
    /\ hist' = [hist EXCEPT
                  !.delivered = @ \cup {p.request.execution_id},
                  !.dispatched = {d \in @ : d.execution_id # p.request.execution_id},
                  !.ordered = @ /\ \A d \in hist.delivered : d < p.request.execution_id]
    /\ UNCHANGED <<executorVars, requests, documentVars, directVars, responses, ret, fault,
            toolVars>>

\* At-least-once delivery: the result channel delivers an execution result
\* that waits in it once more.
Redeliver ==
    /\ fault = None
    /\ \E i \in 1..Len(results) :
          LET Same(m) == m = results[i] IN
          /\ results[i].type = "ExecutionResponse"
          /\ Len(SelectSeq(results, Same)) < MaxDeliveries
          /\ results' = Append(results, results[i])
    /\ UNCHANGED <<executorVars, requests, engine, documentVars, directVars, responses, ret,
                   fault, hist, toolVars>>

ExecutionResults ==
    {[ok |-> FALSE, output |-> None, error |-> EngineError]}
    \cup {[ok |-> TRUE, output |-> o, error |-> None] : o \in EngineOutputs}

----------------------------------------------------------------------------
(* The document, at its interface *)

\* The document handles a DocumentMessage::UpdateClickTargets of the response
\* queue: the click targets of that execution become the cached ones.
UpdateClickTargets ==
    /\ fault = None
    /\ \E i \in 1..Len(responses) :
          /\ responses[i].msg = "DocumentMessage::UpdateClickTargets"
          /\ click_targets' = {responses[i].execution_id}
    /\ UNCHANGED <<executorVars, requests, results, engine, vector_modify,
                   responses, ret, fault, hist, directVars, toolVars>>

----------------------------------------------------------------------------
(* Instrumented: monitor nodes spliced on every input of a network *)

\* graphene_std::memo::monitor::IDENTIFIER
MonitorIdentifier == "monitor"

\* The first id NodeId::new() hands out; every later call gives the next one.
FirstFreshId == 100

\* NodeInput
Value(v) == [type |-> "Value", value |-> v]
node(node_id, output_index) ==
    [type |-> "Node", node_id |-> node_id, output_index |-> output_index]
Import(import_index) == [type |-> "Import", import_index |-> import_index]

\* DocumentNodeImplementation
ProtoNode(identifier) == [kind |-> "ProtoNode", identifier |-> identifier]
Network(nested) == [kind |-> "Network", network |-> nested]
Extract == [kind |-> "Extract"]

DocumentNode(inputs, implementation) ==
    [inputs |-> inputs, implementation |-> implementation]
NodeNetwork(nodes, exports) == [nodes |-> nodes, exports |-> exports]

\* A hash map with no entry.
EmptyMap == [k \in {} |-> <<>>]
\* HashMap::insert
insert(map, k, v) == (k :> v) @@ map

\* Nested networks: node 1 is a proto node K; node 2, when present, is a
\* proto node that may read node 1; the second export may dangle.
NestedNetworks ==
    { NodeNetwork(nodes, exports) :
        nodes \in
          { (1 :> DocumentNode(inputs, ProtoNode("K"))) @@ second :
              inputs \in {<<Value("7")>>, <<Import(0)>>, <<Value("7"), Import(0)>>},
              second \in {EmptyMap,
                          2 :> DocumentNode(<<node(1, 0)>>, ProtoNode("K")),
                          2 :> DocumentNode(<<>>, ProtoNode("L"))} },
        exports \in {<<node(1, 0)>>, <<node(1, 0), node(2, 0)>>} }

\* Top-level networks: node 1 reads values and the outputs of node 2; node 2,
\* when present, is a proto node or a nested network.
Networks ==
    { NodeNetwork((1 :> DocumentNode(inputs, implementation)) @@ second,
                  <<node(1, 0)>>) :
        inputs \in
          LET In == {Value("7"), node(2, 0), node(2, 1)}
          IN  {<<a>> : a \in In} \cup {<<a, b>> : a \in In, b \in In},
        implementation \in {ProtoNode("K"), Extract},
        second \in
          {EmptyMap,
           2 :> DocumentNode(<<Import(0)>>, ProtoNode("L")),
           2 :> DocumentNode(<<>>, ProtoNode("K"))}
          \cup { 2 :> DocumentNode(ins, Network(nested)) :
                   ins \in {<<>>, <<Value("8")>>}, nested \in NestedNetworks } }

\* The orders network.nodes.iter_mut() may visit the nodes of a hash map in.
Orders == {<<1, 2>>, <<2, 1>>}
iter_mut(nodes, order) ==
    LET Present(id) == id \in DOMAIN nodes IN SelectSeq(order, Present)

\* The paths of the hash maps of a network: its own and those of the nested
\* networks.  Every map iterates in its own order, so an instrumentation is
\* given one order for each of them.
RECURSIVE Tables(_)
Tables(network) ==
    {<<>>} \cup
    UNION { IF network.nodes[id].implementation.kind = "Network"
            THEN {<<id>> \o p : p \in Tables(network.nodes[id].implementation.network)}
            ELSE {} : id \in DOMAIN network.nodes }
TableOrders(network) == [Tables(network) -> Orders]

\* A tapped slot that keeps reading the output index it read before.
tap_input_keeps_index(old_input, node_id) ==
    IF old_input.type = "Node" THEN node(node_id, old_input.output_index)
    ELSE node(node_id, 0)

\* The input a tapped slot reads: output 0 of its monitor node.
tap_input(old_input, node_id) == node(node_id, 0)

\* A monitor node that is left with the default inputs of a DocumentNode.
monitor_node_without_input(input) == DocumentNode(<<>>, ProtoNode(MonitorIdentifier))

\* The monitor node that takes over a slot's original input.
monitor_node(input) == DocumentNode(<<input>>, ProtoNode(MonitorIdentifier))

\* A registration by name that keeps only the last occurrence of a kind.
replace_occurrence(by_name, identifier, monitor_node_ids) ==
    insert(by_name, identifier, <<monitor_node_ids>>)

\* protonodes_by_name.entry(identifier).or_default().push(monitor_node_ids)
push_occurrence(by_name, identifier, monitor_node_ids) ==
    IF identifier \in DOMAIN by_name
    THEN [by_name EXCEPT ![identifier] = Append(@, monitor_node_ids)]
    ELSE insert(by_name, identifier, <<monitor_node_ids>>)

\* The second loop of add: insert the monitor nodes into the network.
RECURSIVE insert_monitor_nodes(_, _)
insert_monitor_nodes(nodes, monitor_nodes) ==
    IF monitor_nodes = <<>> THEN nodes
    ELSE insert_monitor_nodes(
             insert(nodes, Head(monitor_nodes)[2], monitor_node(Head(monitor_nodes)[1])),
             Tail(monitor_nodes))

RECURSIVE add(_, _, _, _)

\* One iteration of the first loop of add.  st is [self, nodes, monitor_nodes];
\* self is [protonodes_by_name, protonodes_by_path, next_id]; order gives, for
\* the path of each hash map, the order iter_mut visits it in.
add_node(st, id, path, order) ==
    LET this == st.nodes[id]
        is_network == this.implementation.kind = "Network"
        nested == IF is_network
                  THEN add(st.self, this.implementation.network, path \o <<id>>, order)
                  ELSE [self |-> st.self, network |-> <<>>]
        implementation == IF is_network THEN Network(nested.network)
                          ELSE this.implementation
        n == Len(this.inputs)
        node_ids == [j \in 1..n |-> nested.self.next_id + j - 1]
        monitor_node_ids == [j \in 1..n |-> path \o <<node_ids[j]>>]
        inputs == [j \in 1..n |-> tap_input(this.inputs[j], node_ids[j])]
        tapped == [nested.self EXCEPT !.next_id = @ + n]
        self == IF this.implementation.kind = "ProtoNode"
                THEN [tapped EXCEPT
                        !.protonodes_by_name =
                            push_occurrence(@, this.implementation.identifier,
                                            monitor_node_ids),
                        !.protonodes_by_path =
                            insert(@, path \o <<id>>, monitor_node_ids)]
                ELSE tapped
    IN  [self |-> self,
         nodes |-> [st.nodes EXCEPT ![id] = DocumentNode(inputs, implementation)],
         monitor_nodes |-> st.monitor_nodes
                           \o [j \in 1..n |-> <<this.inputs[j], node_ids[j]>>]]

RECURSIVE add_nodes(_, _, _, _)
add_nodes(st, ids, path, order) ==
    IF ids = <<>> THEN st
    ELSE add_nodes(add_node(st, Head(ids), path, order), Tail(ids), path, order)

\* Instrumented::add: the Instrumented and the network after the call.
add(self, network, path, order) ==
    LET st == add_nodes([self |-> self, nodes |-> network.nodes, monitor_nodes |-> <<>>],
                        iter_mut(network.nodes, order[path]), path, order)
    IN  [self |-> st.self,
         network |-> [network EXCEPT
                        !.nodes = insert_monitor_nodes(st.nodes, st.monitor_nodes)]]

\* Instrumented::new, with the network it rewrote.
Instrumented_new(network, order) ==
    LET r == add([protonodes_by_name |-> EmptyMap, protonodes_by_path |-> EmptyMap,
                  next_id |-> FirstFreshId],
                 network, <<>>, order)
    IN  [network |-> r.network,
         protonodes_by_name |-> r.self.protonodes_by_name,
         protonodes_by_path |-> r.self.protonodes_by_path]

\* What runtime.executor.introspect and the downcast make of a monitor node:
\* one monitor node, if any, has no record ("err") or a record of an unknown
\* shape ("unknown"); every other one has a record of the queried shape.
Runtimes ==
    {[node_id |-> 0, outcome |-> "ok"]}
    \cup [node_id : FirstFreshId..(FirstFreshId + 2), outcome : {"err", "unknown"}]
introspect(runtime, monitor_path) ==
    IF monitor_path[Len(monitor_path)] = runtime.node_id THEN runtime.outcome ELSE "ok"
\* The value recorded by the monitor node at a path.
IORecord(monitor_path) == <<"recorded", monitor_path>>

\* Vec::get: <<>> for None, <<element>> for Some.
get(inputs, index) == IF index + 1 <= Len(inputs) THEN <<inputs[index + 1]>> ELSE <<>>

RECURSIVE flatten(_)
flatten(ss) == IF ss = <<>> THEN <<>> ELSE Head(ss) \o flatten(Tail(ss))

\* grab_all_input that gives up on the first occurrence without a value.
grab_all_input_fatal(self, identifier, index, runtime) ==
    LET occurrences == IF identifier \in DOMAIN self.protonodes_by_name
                       THEN self.protonodes_by_name[identifier] ELSE <<>>
        Yields(inputs) ==
            /\ get(inputs, index) # <<>>
            /\ introspect(runtime, get(inputs, index)[1]) = "ok"
    IN  IF \A k \in 1..Len(occurrences) : Yields(occurrences[k])
        THEN [k \in 1..Len(occurrences) |-> IORecord(get(occurrences[k], index)[1])]
        ELSE <<>>

\* Instrumented::grab_all_input: the items of the iterator it returns.
grab_all_input(self, identifier, index, runtime) ==
    LET occurrences == IF identifier \in DOMAIN self.protonodes_by_name
                       THEN self.protonodes_by_name[identifier] ELSE <<>>
        input_monitor_nodes ==
            flatten([k \in 1..Len(occurrences) |-> get(occurrences[k], index)])
        Introspected(p) == introspect(runtime, p) # "err"
        Downcast(p) == introspect(runtime, p) # "unknown"
        resolved == SelectSeq(SelectSeq(input_monitor_nodes, Introspected), Downcast)
    IN  [k \in 1..Len(resolved) |-> IORecord(resolved[k])]

\* Instrumented::grab_protonode_input: <<>> for None, <<value>> for Some.
grab_protonode_input(self, path, index, runtime) ==
    IF path \notin DOMAIN self.protonodes_by_path THEN <<>>
    ELSE IF get(self.protonodes_by_path[path], index) = <<>> THEN <<>>
    ELSE LET input_monitor_node == get(self.protonodes_by_path[path], index)[1]
         IN  IF introspect(runtime, input_monitor_node) = "err" THEN <<>>
             ELSE IF introspect(runtime, input_monitor_node) = "unknown" THEN <<>>
             ELSE <<IORecord(input_monitor_node)>>

\* Evaluation of a network: a value is the text of the term it denotes.  A
\* proto node applies its kind to its arguments, a monitor node forwards its
\* single input, a nested network gives its exports on its node's inputs as
\* imports; a missing node, output, import or input is an error.
EvalError == "error"
Imports == <<"in0">>

RECURSIVE Join(_)
Join(args) == IF args = <<>> THEN "" ELSE Head(args) \o "," \o Join(Tail(args))

RECURSIVE EvalInput(_, _, _)
EvalNode(network, imports, node_id, output_index) ==
    IF node_id \notin DOMAIN network.nodes THEN EvalError
    ELSE LET this == network.nodes[node_id]
             args == [j \in 1..Len(this.inputs) |->
                        EvalInput(network, imports, this.inputs[j])]
             implementation == this.implementation
         IN  IF \E j \in 1..Len(args) : args[j] = EvalError THEN EvalError
             ELSE IF implementation.kind = "Network"
             THEN IF output_index + 1 > Len(implementation.network.exports)
                  THEN EvalError
                  ELSE EvalInput(implementation.network, args,
                                 implementation.network.exports[output_index + 1])
             ELSE IF output_index # 0 THEN EvalError
             ELSE IF implementation.kind = "Extract"
             THEN "extract(" \o Join(args) \o ")"
             ELSE IF implementation.identifier = MonitorIdentifier
             THEN IF Len(args) = 1 THEN args[1] ELSE EvalError
             ELSE implementation.identifier \o "(" \o Join(args) \o ")"

EvalInput(network, imports, input) ==
    IF input.type = "Value" THEN input.value
    ELSE IF input.type = "Import"
    THEN IF input.import_index + 1 > Len(imports) THEN EvalError
         ELSE imports[input.import_index + 1]
    ELSE EvalNode(network, imports, input.node_id, input.output_index)

\* The primary output of a network.
Eval(network, imports) == EvalInput(network, imports, network.exports[1])

----------------------------------------------------------------------------
(* The request channel after the engine has dropped its receiving end *)

\* The error runtime_io.send returns once the receiver is gone.
SendError == "sending on a closed channel"

\* update_node_graph on a closed channel that adopts the fingerprint and the
\* inspect target only after a successful send.
update_node_graph_closed_send_first(hash, inspect, network_hash, node_to_inspect, ignore_hash) ==
    IF network_hash # hash \/ inspect # node_to_inspect \/ ignore_hash
    THEN [node_graph_hash |-> hash, previous_node_to_inspect |-> inspect,
          ok |-> FALSE, err |-> SendError]
    ELSE [node_graph_hash |-> hash, previous_node_to_inspect |-> inspect,
          ok |-> TRUE, err |-> None]

\* update_node_graph on a closed channel: the cache after the call and what
\* the call returns.
update_node_graph_closed(hash, inspect, network_hash, node_to_inspect, ignore_hash) ==
    IF network_hash # hash \/ inspect # node_to_inspect \/ ignore_hash
    THEN [node_graph_hash |-> network_hash, previous_node_to_inspect |-> node_to_inspect,
          ok |-> FALSE, err |-> SendError]
    ELSE [node_graph_hash |-> hash, previous_node_to_inspect |-> inspect,
          ok |-> TRUE, err |-> None]

\* submit_node_graph_evaluation on a closed channel: the error of
\* update_node_graph is returned; after a cache hit queue_execution advances
\* the counter and panics in expect("Failed to send generation request").
submit_node_graph_evaluation_closed(network_hash, node_to_inspect, ignore_hash, document_id) ==
    LET u == update_node_graph_closed(node_graph_hash, previous_node_to_inspect,
                                      network_hash, node_to_inspect, ignore_hash)
    IN  /\ node_graph_hash' = u.node_graph_hash
        /\ previous_node_to_inspect' = u.previous_node_to_inspect
        /\ IF ~u.ok
           THEN /\ ret' = "Err: " \o u.err
                /\ UNCHANGED <<current_execution_id, fault, toolVars>>
           ELSE /\ current_execution_id' = current_execution_id + 1
                /\ ret' = "panic"
                /\ fault' = "Failed to send generation request"
        /\ responses' = <<>>
        /\ UNCHANGED <<futures, last_svg_canvas, requests, results, engine,
                       documentVars, directVars, hist, toolVars>>

\* The engine goes away and drops the receiving end of the request channel.
DropRuntime ==
    /\ engine.connected
    /\ engine' = [engine EXCEPT !.connected = FALSE]
    /\ UNCHANGED <<executorVars, requests, results, documentVars, directVars,
                   responses, ret, fault, hist, toolVars>>

----------------------------------------------------------------------------
(* Torch tool *)

\* DVec2 and the layer transforms, which are translations here.
transform_point2(transform, point) ==
    <<point[1] + transform[1], point[2] + transform[2]>>
inverse(transform) == <<0 - transform[1], 0 - transform[2]>>
distance_squared(a, b) ==
    (a[1] - b[1]) * (a[1] - b[1]) + (a[2] - b[2]) * (a[2] - b[2])
ZERO == <<0, 0>>

\* Node inputs by displayed name; value is as_value(): empty for a wired input.
Bool(b) == [type |-> "Bool", bool |-> b]
DVec2(v) == [type |-> "DVec2", dvec2 |-> v]
OtherValue == [type |-> "Other"]
Wired(name) == [name |-> name, value |-> <<>>]
ValueInput(name, tagged_value) == [name |-> name, value |-> <<tagged_value>>]

\* The inputs of a drop_shadow node in the order of its parameters.
drop_shadow(light_position, use_light_source) ==
    [inputs |-> <<Wired("Image"),
                  ValueInput("Color", OtherValue),
                  ValueInput("Blur Radius", OtherValue),
                  ValueInput("Spread", OtherValue),
                  ValueInput("Offset", DVec2(<<5, 5>>)),
                  light_position,
                  ValueInput("Use Light Source", Bool(use_light_source)),
                  ValueInput("Shadow Type", OtherValue),
                  ValueInput("Opacity", OtherValue)>>]

\* The nodes of the documents: 10 and 11 are lit shadows, 12 is a shadow
\* without light source, 13 is lit with a wired light position, 14 is another
\* node; 15 is in a layer's flow but is not a node of the network.
DocumentNodes ==
    (10 :> drop_shadow(ValueInput("Light Position", DVec2(<<0, 0>>)), TRUE))
    @@ (11 :> drop_shadow(ValueInput("Light Position", DVec2(<<30, 0>>)), TRUE))
    @@ (12 :> drop_shadow(ValueInput("Light Position", DVec2(<<0, 0>>)), FALSE))
    @@ (13 :> drop_shadow(Wired("Light Position"), TRUE))
    @@ (14 :> [inputs |-> <<Wired("Content"), ValueInput("Offset", DVec2(<<0, 0>>))>>])

\* A document: the selected visible layers in order, and for every layer its
\* transform to the viewport and its horizontal flow.
Document(selected, transforms, flows) ==
    [selected |-> selected, transform_to_viewport |-> transforms,
     horizontal_layer_flow |-> flows, nodes |-> DocumentNodes]
Documents ==
    {Document(<<>>, [l \in {"L1", "L2"} |-> ZERO],
              ("L1" :> <<10>>) @@ ("L2" :> <<>>)),
     Document(<<"L1">>, [l \in {"L1", "L2"} |-> ZERO],
              ("L1" :> <<15, 14, 12, 10>>) @@ ("L2" :> <<11>>)),
     Document(<<"L1", "L2">>, ("L1" :> ZERO) @@ ("L2" :> <<10, 0>>),
              ("L1" :> <<12>>) @@ ("L2" :> <<11, 10>>)),
     Document(<<"L1">>, ("L1" :> <<12, 15>>) @@ ("L2" :> ZERO),
              ("L1" :> <<13>>) @@ ("L2" :> <<>>))}
MousePositions == {<<0, 0>>, <<12, 15>>, <<12, 16>>, <<40, 0>>}

\* The loop over node.inputs of both arms; index counts from 0.
RECURSIVE ScanInputs(_, _, _)
ScanInputs(inputs, k, found) ==
    IF k > Len(inputs) THEN found
    ELSE LET name == inputs[k].name
             value == inputs[k].value
             f1 == IF /\ name = "Use Light Source"
                      /\ value # <<>>
                      /\ value[1].type = "Bool"
                      /\ value[1].bool
                   THEN [found EXCEPT !.is_drop_shadow = TRUE, !.use_light = TRUE]
                   ELSE found
             f2 == IF name = "Light Position"
                   THEN [f1 EXCEPT !.light_pos_index = k - 1,
                                   !.light_pos =
                                       IF value # <<>> /\ value[1].type = "DVec2"
                                       THEN value[1].dvec2 ELSE @]
                   ELSE f1
         IN  ScanInputs(inputs, k + 1, f2)
Scan(document_node) ==
    ScanInputs(document_node.inputs, 1,
               [is_drop_shadow |-> FALSE, use_light |-> FALSE,
                light_pos |-> ZERO, light_pos_index |-> 0])

\* The nodes both arms visit, in order: every node of the flow of every
\* selected visible layer that document_node finds.
RECURSIVE Visited(_, _)
Visited(document, selected) ==
    IF selected = <<>> THEN <<>>
    ELSE LET layer == Head(selected)
             flow == document.horizontal_layer_flow[layer]
             found == SelectSeq(flow, LAMBDA node_id : node_id \in DOMAIN document.nodes)
         IN  [k \in 1..Len(found) |-> [layer |-> layer, node_id |-> found[k]]]
             \o Visited(document, Tail(selected))

\* The Overlays arm: what it draws on the overlay context.
RECURSIVE DrawOverlays(_, _)
DrawOverlays(document, visited) ==
    IF visited = <<>> THEN <<>>
    ELSE LET v == Head(visited)
             transform == document.transform_to_viewport[v.layer]
             found == Scan(document.nodes[v.node_id])
             world_pos == transform_point2(transform, found.light_pos)
             origin == transform_point2(transform, ZERO)
         IN  (IF found.is_drop_shadow /\ found.use_light
              THEN <<[draw |-> "manipulator_handle", position |-> world_pos,
                      layer |-> v.layer, node_id |-> v.node_id],
                     [draw |-> "line", start |-> origin, end |-> world_pos]>>
              ELSE <<>>)
             \o DrawOverlays(document, Tail(visited))

\* The PointerDown arm's search: the first visited lit shadow whose handle is
\* less than 20 px from the mouse, or nothing.
RECURSIVE Pick(_, _, _)
Pick(document, visited, mouse) ==
    IF visited = <<>> THEN <<>>
    ELSE LET v == Head(visited)
             transform == document.transform_to_viewport[v.layer]
             found == Scan(document.nodes[v.node_id])
             world_pos == transform_point2(transform, found.light_pos)
         IN  IF found.is_drop_shadow /\ distance_squared(world_pos, mouse) < 400
             THEN <<[layer |-> v.layer, node_id |-> v.node_id,
                     input_index |-> found.light_pos_index]>>
             ELSE Pick(document, Tail(visited), mouse)

SetInputValue(node_id, input_index, value) ==
    [msg |-> "NodeGraphMessage::SetInputValue", node_id |-> node_id,
     input_index |-> input_index, value |-> DVec2(value)]

\* The tool messages: the torch events and one message of another tool.
TorchToolMessages == {"Abort", "Overlays", "PointerDown", "PointerMove", "PointerUp"}
ToolMessages ==
    {[tool |-> "Torch", event |-> e] : e \in TorchToolMessages}
    \cup {[tool |-> "UpdateHints"], [tool |-> "UpdateCursor"], [tool |-> "Select"]}

Transition(state, data, msgs, overlay_context) ==
    [state |-> state, tool_data |-> data, msgs |-> msgs,
     overlay_context |-> overlay_context]

\* transition that picks a shadow whether or not its light source is used.
transition_picks_unlit(self, event, data, document, mouse) ==
    IF event.tool # "Torch" THEN Transition(self, data, <<>>, <<>>)
    ELSE IF event.event = "Overlays"
    THEN Transition(self, data, <<>>,
                    DrawOverlays(document, Visited(document, document.selected)))
    ELSE IF self = "Ready" /\ event.event = "PointerDown"
    THEN LET visited == Visited(document, document.selected)
             near == SelectSeq(visited, LAMBDA v :
                         distance_squared(
                             transform_point2(document.transform_to_viewport[v.layer],
                                              Scan(document.nodes[v.node_id]).light_pos),
                             mouse) < 400)
         IN  IF near # <<>>
             THEN Transition("Dragging",
                             [drag_start |-> mouse,
                              selected_node |->
                                  <<[layer |-> near[1].layer, node_id |-> near[1].node_id,
                                     input_index |->
                                         Scan(document.nodes[near[1].node_id]).light_pos_index]>>],
                             <<>>, <<>>)
             ELSE Transition("Ready", [drag_start |-> mouse, selected_node |-> <<>>],
                             <<>>, <<>>)
    ELSE IF self = "Dragging" /\ event.event = "PointerMove"
    THEN IF data.selected_node # <<>>
         THEN LET picked == data.selected_node[1]
                  transform == document.transform_to_viewport[picked.layer]
                  local_mouse == transform_point2(inverse(transform), mouse)
              IN  Transition("Dragging", data,
                             <<SetInputValue(picked.node_id, picked.input_index,
                                             local_mouse)>>, <<>>)
         ELSE Transition("Dragging", data, <<>>, <<>>)
    ELSE IF self = "Dragging" /\ event.event = "PointerUp"
    THEN Transition("Ready", [data EXCEPT !.selected_node = <<>>], <<>>, <<>>)
    ELSE IF event.event = "Abort"
    THEN Transition("Ready", [data EXCEPT !.selected_node = <<>>], <<>>, <<>>)
    ELSE Transition(self, data, <<>>, <<>>)

\* transition whose PointerUp keeps selected_node.
transition_keeps_selection(self, event, data, document, mouse) ==
    IF event.tool # "Torch" THEN Transition(self, data, <<>>, <<>>)
    ELSE IF event.event = "Overlays"
    THEN Transition(self, data, <<>>,
                    DrawOverlays(document, Visited(document, document.selected)))
    ELSE IF self = "Ready" /\ event.event = "PointerDown"
    THEN LET picked == Pick(document, Visited(document, document.selected), mouse)
         IN  IF picked # <<>>
             THEN Transition("Dragging",
                             [drag_start |-> mouse, selected_node |-> picked],
                             <<>>, <<>>)
             ELSE Transition("Ready", [drag_start |-> mouse, selected_node |-> <<>>],
                             <<>>, <<>>)
    ELSE IF self = "Dragging" /\ event.event = "PointerMove"
    THEN IF data.selected_node # <<>>
         THEN LET picked == data.selected_node[1]
                  transform == document.transform_to_viewport[picked.layer]
                  local_mouse == transform_point2(inverse(transform), mouse)
              IN  Transition("Dragging", data,
                             <<SetInputValue(picked.node_id, picked.input_index,
                                             local_mouse)>>, <<>>)
         ELSE Transition("Dragging", data, <<>>, <<>>)
    ELSE IF self = "Dragging" /\ event.event = "PointerUp"
    THEN Transition("Ready", data, <<>>, <<>>)
    ELSE IF event.event = "Abort"
    THEN Transition("Ready", [data EXCEPT !.selected_node = <<>>], <<>>, <<>>)
    ELSE Transition(self, data, <<>>, <<>>)

\* TorchToolFsmState::transition: the new state, the tool data, the messages
\* added to responses and the draws on the event's overlay context.
transition(self, event, data, document, mouse) ==
    IF event.tool # "Torch" THEN Transition(self, data, <<>>, <<>>)
    ELSE IF event.event = "Overlays"
    THEN Transition(self, data, <<>>,
                    DrawOverlays(document, Visited(document, document.selected)))
    ELSE IF self = "Ready" /\ event.event = "PointerDown"
    THEN LET picked == Pick(document, Visited(document, document.selected), mouse)
         IN  IF picked # <<>>
             THEN Transition("Dragging",
                             [drag_start |-> mouse, selected_node |-> picked],
                             <<>>, <<>>)
             ELSE Transition("Ready", [drag_start |-> mouse, selected_node |-> <<>>],
                             <<>>, <<>>)
    ELSE IF self = "Dragging" /\ event.event = "PointerMove"
    THEN IF data.selected_node # <<>>
         THEN LET picked == data.selected_node[1]
                  transform == document.transform_to_viewport[picked.layer]
                  local_mouse == transform_point2(inverse(transform), mouse)
              IN  Transition("Dragging", data,
                             <<SetInputValue(picked.node_id, picked.input_index,
                                             local_mouse)>>, <<>>)
         ELSE Transition("Dragging", data, <<>>, <<>>)
    ELSE IF self = "Dragging" /\ event.event = "PointerUp"
    THEN Transition("Ready", [data EXCEPT !.selected_node = <<>>], <<>>, <<>>)
    ELSE IF event.event = "Abort"
    THEN Transition("Ready", [data EXCEPT !.selected_node = <<>>], <<>>, <<>>)
    ELSE Transition(self, data, <<>>, <<>>)

\* update_hints and update_cursor.
update_hints(self) ==
    [msg |-> "FrontendMessage::UpdateInputHints",
     hint_data |-> IF self = "Ready" THEN "Drag Light" ELSE "Cancel"]
update_cursor ==
    [msg |-> "FrontendMessage::UpdateMouseCursor", cursor |-> "Default"]

\* Fsm::process_event with update_cursor_on_transition = false: the state
\* becomes what transition returns, and a changed state sends its hints.
process_event(self, event, data, document, mouse) ==
    LET t == transition(self, event, data, document, mouse)
    IN  [t EXCEPT !.msgs = IF t.state # self THEN @ \o <<update_hints(t.state)>>
                           ELSE @]

\* TorchTool::process_message; call holds the message, the document and the
\* mouse position it was given and the overlay context it drew on.
process_message(message, document, mouse) ==
    LET t == IF message.tool = "UpdateHints"
             THEN Transition(fsm_state, tool_data, <<update_hints(fsm_state)>>, <<>>)
             ELSE IF message.tool = "UpdateCursor"
             THEN Transition(fsm_state, tool_data, <<update_cursor>>, <<>>)
             ELSE process_event(fsm_state, message, tool_data, document, mouse)
    IN  /\ fsm_state' = t.state
        /\ tool_data' = t.tool_data
        /\ responses' = t.msgs
        /\ call' = [message |-> message, document |-> document, mouse |-> mouse,
                    overlay_context |-> t.overlay_context]
        /\ UNCHANGED <<executorVars, requests, results, engine, documentVars,
                       ret, fault, hist, instrumented>>

----------------------------------------------------------------------------
(* update_node_graph_instrumented *)

\* The number of calls of update_node_graph_instrumented.
MaxInstrumented == 2
\* What crate::application::generate_uuid gives: the hash of no network.
Uuids == 2..(MaxInstrumented + 1)

\* document.network_interface.document_network() of the document with a hash.
DocumentNetwork(network_hash) ==
    IF network_hash = 0
    THEN NodeNetwork(1 :> DocumentNode(<<Value("7")>>, ProtoNode("K")), <<node(1, 0)>>)
    ELSE NodeNetwork(
             1 :> DocumentNode(
                      <<Value("8")>>,
                      Network(NodeNetwork(1 :> DocumentNode(<<Import(0)>>, ProtoNode("K")),
                                          <<node(1, 0)>>))),
             <<node(1, 0)>>)

\* The GraphUpdate carries the instrumented network of the document, which
\* stands for the same graph as the document's network.
update_node_graph_instrumented(network_hash, uuid, order) ==
    LET sent == <<GraphUpdate(network_hash, None)>>
    IN  /\ node_graph_hash' = uuid
        /\ instrumented' = <<Instrumented_new(DocumentNetwork(network_hash), order)>>
        /\ requests' = requests \o sent
        /\ ret' = "Ok"
        /\ hist' = [hist EXCEPT !.lastGraphUpdate = LastGraphUpdateAfter(sent),
                                 !.uuids = @ \cup {uuid}]
        /\ UNCHANGED <<current_execution_id, futures, previous_node_to_inspect,
                       last_svg_canvas, results, engine, documentVars, responses,
                       fault, call, toolVars>>

----------------------------------------------------------------------------
(* The system *)

\* The controller runs until a panic; it dispatches at most MaxExec executions.
Running == fault = None
CanDispatch == Running /\ current_execution_id < MaxExec

SubmitNodeGraphEvaluation ==
    /\ CanDispatch
    /\ \E h \in NetworkHashes, t \in InspectTargets, ig \in BOOLEAN, d \in DocumentIds :
          submit_node_graph_evaluation(h, t, ig, d)

SubmitCurrentNodeGraphEvaluation ==
    /\ CanDispatch
    /\ \E d \in DocumentIds : submit_current_node_graph_evaluation(d)

SubmitEyedropperPreview ==
    /\ CanDispatch
    /\ \E d \in DocumentIds : submit_eyedropper_preview(d)

SubmitDocumentExport ==
    /\ CanDispatch
    /\ \E h \in NetworkHashes, ft \in ExportFileTypes, b \in BOOLEAN, d \in DocumentIds :
          submit_document_export(h, ft, b, d)

Poll == Running /\ poll_node_graph_evaluation

\* Side-channel messages waiting in the request channel are bounded.
CanSendSideChannel ==
    Running /\ Len(SelectSeq(requests, IsSideChannel)) < MaxSideChannel

UpdateFontCache ==
    /\ CanSendSideChannel
    /\ \E f \in FontCaches : update_font_cache(f)

UpdateEditorPreferences ==
    /\ CanSendSideChannel
    /\ \E e \in EditorPreferencesValues : update_editor_preferences(e)

EngineStep ==
    \/ EngineReceive
    \/ \E p \in engine.pending, r \in ExecutionResults : EngineRespond(p, r)

Next ==
    \/ SubmitNodeGraphEvaluation
    \/ SubmitCurrentNodeGraphEvaluation
    \/ SubmitEyedropperPreview
    \/ SubmitDocumentExport
    \/ Poll
    \/ EngineStep
    \/ UpdateClickTargets

Spec == Init /\ [][Next]_vars

\* The controller with the side channel in use: font cache and preferences
\* updates go out between the submissions of renders and exports.
NextSideChannel ==
    \/ SubmitCurrentNodeGraphEvaluation
    \/ SubmitDocumentExport
    \/ UpdateFontCache
    \/ UpdateEditorPreferences
    \/ Poll
    \/ EngineStep

SpecSideChannel == Init /\ [][NextSideChannel]_vars

\* The controller behind a result channel that delivers at least once.
NextAtLeastOnce ==
    \/ Next
    \/ Redeliver

SpecAtLeastOnce == Init /\ [][NextAtLeastOnce]_vars

\* process_export called directly, on every output and export configuration.
InitExport ==
    /\ InitExecutor
    /\ InitTool
    /\ instrumented = <<>>
    /\ call \in [node_graph_output : NodeGraphOutputs, export_config : ExportConfigs]

ProcessExport ==
    /\ ret = None
    /\ LET h == process_export_full(call.node_graph_output, call.export_config)
       IN  /\ responses' = h.msgs
           /\ ret' = IF h.ok THEN "Ok" ELSE "Err: " \o h.err
    /\ UNCHANGED <<executorVars, requests, results, engine, documentVars, directVars,
                   fault, hist, toolVars>>

NextExport == ProcessExport
SpecExport == InitExport /\ [][NextExport]_vars

\* The torch tool receives any tool message, with any document and mouse.
ProcessMessage ==
    \E message \in ToolMessages, document \in Documents, mouse \in MousePositions :
        process_message(message, document, mouse)

NextTorch == ProcessMessage
SpecTorch == Init /\ [][NextTorch]_vars

\* process_node_graph_output called directly, MaxCalls times at most, on any
\* sequence of outputs.
ProcessNodeGraphOutput ==
    /\ Len(call) < MaxCalls
    /\ \E o \in RenderedOutputs : ProcessNodeGraphOutputOf(o)

NextCanvas == ProcessNodeGraphOutput
SpecCanvas == Init /\ [][NextCanvas]_vars

\* Instrumented::new and the two queries, called directly on every network.
QueriedIdentifiers == {"K", "L", MonitorIdentifier}
QueriedPaths == {<<1>>, <<2>>, <<2, 1>>, <<2, 2>>, <<9>>}
QueriedIndexes == 0..1

InitInstrumented ==
    /\ InitExecutor
    /\ InitTool
    /\ instrumented = <<>>
    /\ call \in [network : Networks, query : {<<>>}]

Instrument ==
    /\ instrumented = <<>>
    /\ \E order \in TableOrders(call.network) :
          instrumented' = <<Instrumented_new(call.network, order)>>
    /\ UNCHANGED <<executorVars, requests, results, engine, documentVars, responses,
                   ret, fault, hist, call, toolVars>>

GrabAllInput ==
    /\ instrumented # <<>>
    /\ call.query = <<>>
    /\ \E identifier \in QueriedIdentifiers, index \in QueriedIndexes,
          runtime \in Runtimes :
          /\ call' = [call EXCEPT !.query =
                        <<[op |-> "grab_all_input", identifier |-> identifier,
                           path |-> <<>>, index |-> index, runtime |-> runtime]>>]
          /\ ret' = grab_all_input(instrumented[1], identifier, index, runtime)
    /\ UNCHANGED <<executorVars, requests, results, engine, documentVars, responses,
                   fault, hist, instrumented, toolVars>>

GrabProtonodeInput ==
    /\ instrumented # <<>>
    /\ call.query = <<>>
    /\ \E path \in QueriedPaths, index \in QueriedIndexes, runtime \in Runtimes :
          /\ call' = [call EXCEPT !.query =
                        <<[op |-> "grab_protonode_input", identifier |-> None,
                           path |-> path, index |-> index, runtime |-> runtime]>>]
          /\ ret' = grab_protonode_input(instrumented[1], path, index, runtime)
    /\ UNCHANGED <<executorVars, requests, results, engine, documentVars, responses,
                   fault, hist, instrumented, toolVars>>

NextInstrumented == \/ Instrument \/ GrabAllInput \/ GrabProtonodeInput
SpecInstrumented == InitInstrumented /\ [][NextInstrumented]_vars

\* The controller while the user moves the inspection from node to node.
InspectedNodes == {"X", "Y"}

SubmitInspecting ==
    /\ CanDispatch
    /\ \E h \in NetworkHashes, t \in InspectedNodes, d \in DocumentIds :
          submit_node_graph_evaluation(h, t, FALSE, d)

NextInspecting ==
    \/ SubmitInspecting
    \/ Poll
    \/ EngineStep

SpecInspecting == Init /\ [][NextInspecting]_vars

\* An engine that answers every execution it has accepted, oldest first and
\* with success.
EngineRespondInOrder ==
    \E p \in engine.pending, r \in ExecutionResults :
        /\ r.ok
        /\ \A q \in engine.pending : p.request.execution_id <= q.request.execution_id
        /\ EngineRespond(p, r)

\* The controller in front of that engine: it keeps polling, the engine keeps
\* reading the channel and answering.
NextInOrder ==
    \/ SubmitNodeGraphEvaluation
    \/ SubmitCurrentNodeGraphEvaluation
    \/ SubmitEyedropperPreview
    \/ SubmitDocumentExport
    \/ Poll
    \/ EngineReceive
    \/ EngineRespondInOrder

SpecInOrder ==
    /\ Init
    /\ [][NextInOrder]_vars
    /\ WF_vars(Poll)
    /\ WF_vars(EngineReceive)
    /\ WF_vars(EngineRespondInOrder)

\* crate::application::generate_uuid returns a value it has not returned
\* before.  The controller only compares the value with network hashes, so
\* which unused value it is makes no difference: the least one is taken.
generate_uuid ==
    CHOOSE u \in Uuids \ hist.uuids : \A v \in Uuids \ hist.uuids : u <= v

\* The controller in a test build, where update_node_graph_instrumented is
\* compiled in: it may be called at any time, with executions pending or not,
\* and again after an earlier call, MaxInstrumented times in all.
UpdateNodeGraphInstrumented ==
    /\ Running
    /\ Cardinality(hist.uuids) < MaxInstrumented
    /\ \E h \in NetworkHashes :
        \E order \in TableOrders(DocumentNetwork(h)) :
          update_node_graph_instrumented(h, generate_uuid, order)

NextTestBuild ==
    \/ SubmitNodeGraphEvaluation
    \/ SubmitCurrentNodeGraphEvaluation
    \/ SubmitEyedropperPreview
    \/ SubmitDocumentExport
    \/ Poll
    \/ EngineStep
    \/ UpdateNodeGraphInstrumented

SpecTestBuild == Init /\ [][NextTestBuild]_vars

\* The controller that dispatches up to MaxLedger executions, so that the
\* ledger holds three entries at once and a render, preview or export is
\* dispatched between two calls of submit_node_graph_evaluation.
MaxLedger == 3
CanDispatchLedger == Running /\ current_execution_id < MaxLedger

LedgerSubmitNodeGraphEvaluation ==
    /\ CanDispatchLedger
    /\ \E h \in NetworkHashes, t \in InspectTargets, ig \in BOOLEAN, d \in DocumentIds :
          submit_node_graph_evaluation(h, t, ig, d)

LedgerSubmitCurrentNodeGraphEvaluation ==
    /\ CanDispatchLedger
    /\ \E d \in DocumentIds : submit_current_node_graph_evaluation(d)

LedgerSubmitEyedropperPreview ==
    /\ CanDispatchLedger
    /\ \E d \in DocumentIds : submit_eyedropper_preview(d)

LedgerSubmitDocumentExport ==
    /\ CanDispatchLedger
    /\ \E h \in NetworkHashes, ft \in ExportFileTypes, b \in BOOLEAN, d \in DocumentIds :
          submit_document_export(h, ft, b, d)

NextLedger ==
    \/ LedgerSubmitNodeGraphEvaluation
    \/ LedgerSubmitCurrentNodeGraphEvaluation
    \/ LedgerSubmitEyedropperPreview
    \/ LedgerSubmitDocumentExport
    \/ Poll
    \/ EngineStep
    \/ UpdateClickTargets

SpecLedger == Init /\ [][NextLedger]_vars

\* The controller whose engine may go away: renders are submitted before
\* and after the request channel is closed.
SubmitWhileConnected == engine.connected /\ SubmitNodeGraphEvaluation
EngineStepWhileConnected == engine.connected /\ EngineStep
SubmitOnClosedChannel ==
    /\ CanDispatch
    /\ ~engine.connected
    /\ \E h \in NetworkHashes, t \in InspectTargets, ig \in BOOLEAN, d \in DocumentIds :
          submit_node_graph_evaluation_closed(h, t, ig, d)

NextClosedChannel ==
    \/ SubmitWhileConnected
    \/ EngineStepWhileConnected
    \/ Poll
    \/ DropRuntime
    \/ SubmitOnClosedChannel

SpecClosedChannel == Init /\ [][NextClosedChannel]_vars

----------------------------------------------------------------------------
(* Properties *)

\* The messages the step under consideration added to the request channel.
SentNow ==
    IF Len(requests') >= Len(requests)
       /\ SubSeq(requests', 1, Len(requests)) = requests
    THEN SubSeq(requests', Len(requests) + 1, Len(requests'))
    ELSE <<>>

\* C1: monotonic staleness.  Once the result of an execution has been processed,
\* the data of a result with a smaller id that arrives afterwards (its frontend
\* responses, its vector_modify data, its output) never reaches the document or
\* the response queue, and polling goes on without a panic.
C1_MonotonicStaleness ==
    /\ hist.staleApplied = {}
    /\ (hist.processedMax > 0 => fault = None)

\* C2: whatever the order in which the engine answers the dispatched executions,
\* poll_node_graph_evaluation reaches neither panic!("InvalidGenerationId") nor a
\* failing assert_eq!(fid, execution_id).
C2_NoConsistencyFault == fault = None

\* C3: ledger invariant.  While the engine's answers are a subsequence of the
\* dispatch stream (increasing ids, each at most once), no successful result
\* hits a consistency fault, and the entry popped for it is the one submitted
\* with its id: same id, same render configuration, same export file type.
C3_LedgerInvariant ==
    hist.ordered =>
        /\ fault = None
        /\ \A i \in 1..Len(hist.matched) :
              LET m == hist.matched[i] IN
              /\ m.entry[1] = m.execution_id
              /\ m.entry[2].render_config = m.request.render_config
              /\ m.entry[2].export_config = m.request.export_file_type

\* A result for id 1 was matched after the entry of id 0, never answered, was
\* retired ahead of it.
C3_Witness ==
    /\ hist.ordered
    /\ fault = None
    /\ hist.matched # <<>>
    /\ hist.matched[1].execution_id = 1
    /\ hist.matched[1].entry[2].render_config.for_eyedropper
    /\ 0 \notin hist.delivered

\* C4: update_node_graph sends a GraphUpdate (carrying the current fingerprint
\* and inspect target) if and only if the fingerprint differs from the stored
\* one, or the inspect target differs from the stored one, or ignore_hash is
\* set; otherwise it sends nothing and leaves the cache as it is.
C4_UpdateIffNeeded ==
    [][\A h \in NetworkHashes, t \in InspectTargets, ig \in BOOLEAN, d \in DocumentIds :
          submit_node_graph_evaluation(h, t, ig, d) =>
              LET needed == h # node_graph_hash \/ t # previous_node_to_inspect \/ ig
                  updates == GraphUpdatesIn(SentNow)
              IN  /\ needed => updates = <<GraphUpdate(h, t)>>
                  /\ ~needed => /\ updates = <<>>
                                /\ node_graph_hash' = node_graph_hash
                                /\ previous_node_to_inspect' = previous_node_to_inspect]_vars

\* Two calls are in the channel: the first needed a GraphUpdate and sent it, the
\* second found the cache current and sent only its ExecutionRequest.
C4_Witness ==
    /\ Len(requests) = 3
    /\ IsGraphUpdate(requests[1])
    /\ IsExecutionRequest(requests[2])
    /\ IsExecutionRequest(requests[3])
    /\ hist.adopted = <<[hash |-> requests[1].network,
                         inspect |-> requests[1].node_to_inspect]>>
    /\ hist.cycle # <<>>
    /\ hist.cycle[1].calls = 2

\* C5: idempotence of the cache check.  Once update_node_graph has sent a
\* GraphUpdate for fingerprint h and inspect target t, a further unforced call
\* with the same h and t sends no GraphUpdate, whatever renders, previews,
\* exports and polls came in between.
C5_CacheCheckIdempotent ==
    [][\A h \in NetworkHashes, t \in InspectTargets, d \in DocumentIds :
          (/\ hist.adopted = <<[hash |-> h, inspect |-> t]>>
           /\ submit_node_graph_evaluation(h, t, FALSE, d))
          => /\ GraphUpdatesIn(SentNow) = <<>>
             /\ hist'.adopted = hist.adopted]_vars

\* The pair was adopted by the call of id 0, an export of id 1 sent its own
\* GraphUpdate, and the call of id 2 repeated the pair unforced: the channel
\* holds the two GraphUpdates and the three requests, none of them after the
\* request of id 1 a GraphUpdate.
C5_Witness ==
    /\ hist.adopted # <<>>
    /\ hist.cycle # <<>>
    /\ hist.cycle[1].calls = 2
    /\ hist.cycle[1].hash = hist.adopted[1].hash
    /\ hist.cycle[1].inspect = hist.adopted[1].inspect
    /\ LedgerIds = <<0, 1, 2>>
    /\ futures[2][2].export_config # None
    /\ Len(requests) = 5
    /\ SentIds(SubSeq(requests, 4, 5)) = <<1, 2>>
    /\ Len(GraphUpdatesIn(requests)) = 2

\* C6: a change of the inspect target with the fingerprint unchanged makes the
\* cache check true exactly once: over the evaluation cycles that keep that
\* fingerprint and target exactly one GraphUpdate is sent, and it carries the
\* new inspect target.
C6_InspectChangeUpdatesOnce ==
    \A i \in 1..Len(hist.cycle) :
        hist.cycle[i].sent = <<GraphUpdate(hist.cycle[i].hash, hist.cycle[i].inspect)>>

\* The inspect target went from None to X, a second cycle with the same pair
\* followed, and the engine holds the graph with inspect target X.
C6_Witness ==
    /\ hist.cycle # <<>>
    /\ hist.cycle[1].inspect = "X"
    /\ hist.cycle[1].calls = 2
    /\ engine.graph = <<GraphUpdate(hist.cycle[1].hash, "X")>>
    /\ engine.pending = {}

\* C7: cache coherence.  Once a GraphUpdate has been sent, the stored pair
\* (node_graph_hash, previous_node_to_inspect) is the fingerprint and inspect
\* target of the most recent GraphUpdate sent to the engine.
C7_CacheCoherence ==
    \A i \in 1..Len(hist.lastGraphUpdate) :
        hist.lastGraphUpdate[i] = GraphUpdate(node_graph_hash, previous_node_to_inspect)

\* C8: the n-th ExecutionRequest sent (n = 0, 1, 2, ...) carries id n, whatever
\* the purpose of the submission, so no execution id is used twice.
C8_ExecutionIdsIncrease ==
    \A i \in 1..Len(hist.sentIds) : hist.sentIds[i] = i - 1

\* Two submissions of different purposes, an export and then a preview, got
\* the ids 0 and 1.
C8_Witness ==
    /\ hist.sentIds = <<0, 1>>
    /\ Len(futures) = 2
    /\ futures[1][2].export_config # None
    /\ futures[2][2].render_config.for_eyedropper

\* What C9 asks of a submission that is to record context: exactly one
\* ExecutionRequest sent, exactly one entry appended, same id, same purpose.
OneRequestOneEntry(context) ==
    LET e == ExecutionRequestsIn(SentNow) IN
    /\ Len(e) = 1
    /\ futures' = Append(futures, <<e[1].execution_id, context>>)
    /\ e[1].render_config = context.render_config
    /\ e[1].export_file_type = context.export_config

\* C9: every successful submission (render, preview, export) sends exactly one
\* ExecutionRequest, with or without a GraphUpdate, and appends exactly one
\* ledger entry with the same id and the purpose of the submission
\* (export_config only for an export, for_eyedropper only for a preview); the
\* ledger never holds an entry whose ExecutionRequest was not sent.
C9_OneRequestPerSubmission ==
    /\ [](\A i \in 1..Len(futures) :
             \E j \in 1..Len(hist.sentIds) : hist.sentIds[j] = futures[i][1])
    /\ [][/\ \A d \in DocumentIds :
                submit_current_node_graph_evaluation(d) =>
                    OneRequestOneEntry(ExecutionContext(RenderConfig(FALSE, FALSE), None, d))
          /\ \A h \in NetworkHashes, t \in InspectTargets, ig \in BOOLEAN, d \in DocumentIds :
                submit_node_graph_evaluation(h, t, ig, d) =>
                    OneRequestOneEntry(ExecutionContext(RenderConfig(FALSE, FALSE), None, d))
          /\ \A d \in DocumentIds :
                submit_eyedropper_preview(d) =>
                    OneRequestOneEntry(ExecutionContext(RenderConfig(FALSE, TRUE), None, d))
          /\ \A h \in NetworkHashes, ft \in ExportFileTypes, d \in DocumentIds :
                submit_document_export(h, ft, TRUE, d) =>
                    OneRequestOneEntry(ExecutionContext(RenderConfig(TRUE, FALSE), ft, d))
          /\ Len(futures') > Len(futures) => Len(ExecutionRequestsIn(SentNow)) = 1]_vars

\* A render that needed no GraphUpdate and an export, which always sends one,
\* are both in the channel and in the ledger.
C9_Witness ==
    /\ Len(requests) = 3
    /\ IsExecutionRequest(requests[1])
    /\ IsGraphUpdate(requests[2])
    /\ IsExecutionRequest(requests[3])
    /\ LedgerIds = <<requests[1].execution_id, requests[3].execution_id>>
    /\ futures[1][2].export_config = None
    /\ futures[2][2].export_config = requests[3].export_file_type
    /\ futures[2][2].export_config # None

\* Whether a is what is left of b after entries were taken from its front.
IsSuffix(a, b) ==
    /\ Len(a) <= Len(b)
    /\ a = SubSeq(b, Len(b) - Len(a) + 1, Len(b))

\* C10: the ledger is ordered by submission: its ids increase strictly from
\* front to back and are all smaller than current_execution_id, and entries
\* leave it only from the front.
C10_LedgerOrdered ==
    /\ [](/\ \A i \in 1..Len(futures) : futures[i][1] < current_execution_id
          /\ \A i, j \in 1..Len(futures) : i < j => futures[i][1] < futures[j][1])
    /\ [][\/ IsSuffix(futures', futures)
          \/ /\ Len(futures') = Len(futures) + 1
             /\ SubSeq(futures', 1, Len(futures)) = futures]_vars

\* Two entries were pending; the result of id 0 took the front one and left
\* the entry of id 1.
C10_Witness ==
    /\ LedgerIds = <<1>>
    /\ hist.processedMax = 0
    /\ hist.delivered = {0}
    /\ fault = None

----------------------------------------------------------------------------
(* The results of a batch, one at a time *)

\* The loop's state before the i-th result of the batch that waits in the
\* channel, were poll_node_graph_evaluation called now, and the state one more
\* result r leads to from a loop state b.
Before(i) == PollLoop(PollStart, SubSeq(results, 1, i - 1))
After(b, r) == PollLoop(b, <<r>>)

\* Whether the call gets as far as the result that follows loop state b.
Reached(b) == Running /\ ~b.stop

IsExecutionResponse(r) == r.type = "ExecutionResponse"
IsCompilationResponse(r) == r.type = "CompilationResponse"

\* The ids of the entries of a ledger.
IdsOf(q) == {q[j][1] : j \in 1..Len(q)}

\* The messages a result adds to the response queue, from loop state b to a.
Added(b, a) == SubSeq(a.responses, Len(b.responses) + 1, Len(a.responses))

\* C11: retire rule.  Processing a successful result for a pending id k takes
\* from the ledger exactly the entries with id <= k, whatever their purpose,
\* and leaves the entries with id > k as they were, in the same order.
C11_RetireRule ==
    \A i \in 1..Len(results) :
        LET r == results[i]
            b == Before(i)
            a == After(b, r)
        IN  (/\ Reached(b)
             /\ IsExecutionResponse(r)
             /\ r.result.ok
             /\ r.execution_id \in IdsOf(b.futures))
            => LET Later(e) == e[1] > r.execution_id IN
               /\ a.futures = SelectSeq(b.futures, Later)
               /\ a.fault = None

\* Three executions were dispatched and the ledger held all three when a poll
\* processed the result of id 1, an export: the unanswered entry of id 0 was
\* retired, the entry of id 1 was popped, and the preview of id 2 is still
\* there.
C11_Witness ==
    /\ hist.matched # <<>>
    /\ hist.matched[1].execution_id = 1
    /\ hist.matched[1].entry[2].export_config # None
    /\ LedgerIds = <<2>>
    /\ futures[1][2].render_config.for_eyedropper
    /\ hist.delivered = {1}
    /\ hist.sentIds = <<0, 1, 2>>
    /\ responses # <<>>
    /\ fault = None

\* C12: a ledger entry is destroyed when its matching result is processed,
\* also when that result is a failure: once the failed result of id k has been
\* processed the ledger has no entry with id k.
C12_FailedResultRetiresEntry ==
    \A k \in hist.failed : k \notin IdsOf(futures)

\* C13: every result a poll drains from the channel is processed; none is
\* dropped because a result before it in the batch failed.
C13_NoResultLost == hist.lost = {}

\* C14: a failed execution result clears the click targets and the
\* vector_modify data, returns Err with the engine's message and does not
\* panic; no purpose handler runs for it and no TriggerGraphRun or data-panel
\* message is added: the only message of that result is the overlay redraw
\* every execution result starts with.
C14_FailedResultClears ==
    \A i \in 1..Len(results) :
        LET r == results[i]
            b == Before(i)
            a == After(b, r)
        IN  (Reached(b) /\ IsExecutionResponse(r) /\ ~r.result.ok)
            => /\ a.click_targets = {}
               /\ a.vector_modify = {}
               /\ a.ret = "Err: Node graph evaluation failed:\n" \o r.result.error
               /\ a.fault = None
               /\ a.stop
               /\ Added(b, a) = <<Msg("OverlaysMessage::Draw")>>
               /\ a.hist.matched = b.hist.matched
               /\ a.last_svg_canvas = b.last_svg_canvas

\* The render of id 0 succeeded and left its data in the document; then the
\* failed result of id 1 was polled: the data is gone and Err was returned.
C14_Witness ==
    /\ hist.failed = {1}
    /\ hist.processedMax = 0
    /\ hist.matched[1].handler = "process_node_graph_output"
    /\ ret = "Err: Node graph evaluation failed:\n" \o EngineError
    /\ responses = <<Msg("OverlaysMessage::Draw")>>
    /\ vector_modify = {}
    /\ click_targets = {}
    /\ fault = None

\* The two messages a compilation result adds.
TypesMessages(resolved_types, node_graph_errors) ==
    <<[msg |-> "NodeGraphMessage::UpdateTypes", resolved_types |-> resolved_types,
       node_graph_errors |-> node_graph_errors],
      Msg("NodeGraphMessage::SendGraph")>>

\* C15: a failed compilation result still applies its partial delta (UpdateTypes
\* with the incomplete delta and the graph errors, then SendGraph), clears the
\* click targets and the vector_modify data and returns Err without a panic; a
\* successful one adds UpdateTypes with the full delta and SendGraph; neither
\* touches the ledger or the execution id counter.
C15_CompilationResult ==
    /\ [](\A i \in 1..Len(results) :
             LET r == results[i]
                 b == Before(i)
                 a == After(b, r)
             IN  (Reached(b) /\ IsCompilationResponse(r))
                 => /\ a.futures = b.futures
                    /\ a.fault = None
                    /\ r.ok => /\ Added(b, a) = TypesMessages("full", r.node_graph_errors)
                               /\ ~a.stop
                               /\ a.ret = b.ret
                               /\ a.click_targets = b.click_targets
                               /\ a.vector_modify = b.vector_modify
                    /\ ~r.ok => /\ Added(b, a) =
                                       TypesMessages("incomplete", r.node_graph_errors)
                                /\ a.click_targets = {}
                                /\ a.vector_modify = {}
                                /\ a.ret = "Err: Node graph evaluation failed:\n" \o r.error
                                /\ a.stop)
    /\ [][Poll => current_execution_id' = current_execution_id]_vars

\* A graph that does not compile was sent with an export; the poll of its
\* compilation result added the partial delta and returned Err, and the
\* export is still pending.
C15_Witness ==
    /\ responses = TypesMessages("incomplete", "some")
    /\ ret = "Err: Node graph evaluation failed:\n" \o EngineError
    /\ fault = None
    /\ Len(futures) = 1
    /\ futures[1][2].export_config # None
    /\ current_execution_id = 1
    /\ engine.graph = <<GraphUpdate(BrokenNetwork, None)>>

\* The handler the ExecutionRequest of an execution asks for, and what that
\* handler adds for the output.
ExpectedHandler(request) ==
    IF request.export_file_type # None THEN "process_export"
    ELSE IF request.render_config.for_eyedropper THEN "process_eyedropper_preview"
    ELSE "process_node_graph_output"

ExpectedResult(request, output, id, canvas) ==
    IF request.export_file_type # None
    THEN process_export(output, request.export_file_type, id)
    ELSE IF request.render_config.for_eyedropper
    THEN process_eyedropper_preview(output, id)
    ELSE process_node_graph_output(output, id, canvas)

\* Whether r is a successful execution result that the loop gets to in state
\* b and matches with a ledger entry, which leads to state a.
Matched(r, b, a) ==
    /\ Reached(b)
    /\ IsExecutionResponse(r)
    /\ r.result.ok
    /\ a.fault = None

\* The ledger entry the result that led to loop state a was matched with.
EntryOf(a) == a.hist.matched[1].entry

\* C16: a matched successful result goes to exactly one handler, the one its
\* own submission recorded: process_export for an export, otherwise
\* process_eyedropper_preview for a preview, otherwise
\* process_node_graph_output; never the handler of another id's context.
C16_DispatchByPurpose ==
    [](\A i \in 1..Len(results) :
           LET r == results[i]
               b == Before(i)
               a == After(b, r)
           IN  Matched(r, b, a) =>
               LET m == a.hist.matched[1]
                   h == ExpectedResult(r.request, r.result.output, r.execution_id,
                                       b.last_svg_canvas)
                   added == Added(b, a)
               IN  /\ m.execution_id = r.execution_id
                   /\ m.entry[1] = r.execution_id
                   /\ m.handler = ExpectedHandler(r.request)
                   /\ m.handled = h.ok
                   /\ SubSeq(added, 1, 2 + Len(h.msgs)) =
                          <<Msg("OverlaysMessage::Draw"),
                            MsgOf("FrontendMessage", r.execution_id)>> \o h.msgs
                   /\ Len(added) = 2 + Len(h.msgs) + (IF h.ok THEN 2 ELSE 0))

\* An export (id 0) and a preview (id 1) were both answered; the preview's
\* result, processed last, went to process_eyedropper_preview.
C16_Witness ==
    /\ hist.matched # <<>>
    /\ hist.matched[1].execution_id = 1
    /\ hist.matched[1].handler = "process_eyedropper_preview"
    /\ hist.matched[1].request.render_config.for_eyedropper
    /\ hist.delivered = {0, 1}
    /\ hist.processedMax = 1
    /\ hist.staleApplied = {}
    /\ ret = "Ok"
    /\ fault = None
    /\ \E j \in 1..Len(responses) : responses[j].msg = "FrontendMessage::TriggerSaveFile"

\* Whether a message writes or downloads a file.
WritesFile(m) ==
    m.msg \in {"FrontendMessage::TriggerSaveFile", "FrontendMessage::TriggerExportImage"}

\* C17: export-format mismatch.  A text-art (Ascii) export whose result is
\* vector markup returns the mismatch error and adds no TriggerSaveFile and
\* no TriggerExportImage message: nothing is written.
C17_AsciiExportOfSvgAborts ==
    [](\A i \in 1..Len(results) :
           LET r == results[i]
               b == Before(i)
               a == After(b, r)
               added == Added(b, a)
           IN  (/\ Matched(r, b, a)
                /\ r.result.output = "Svg"
                /\ EntryOf(a)[2].export_config = "Ascii")
               => /\ a.ret = "Err: " \o AsciiRequiresRaster
                  /\ a.stop
                  /\ \A j \in 1..Len(added) : ~WritesFile(added[j]))

\* The result of an Ascii export was matched and the poll returned the
\* mismatch error.
C17_Witness ==
    /\ hist.matched # <<>>
    /\ hist.matched[1].entry[2].export_config = "Ascii"
    /\ hist.matched[1].request.export_file_type = "Ascii"
    /\ ~hist.matched[1].handled
    /\ ret = "Err: " \o AsciiRequiresRaster
    /\ \A j \in 1..Len(responses) : ~WritesFile(responses[j])
    /\ fault = None

\* A result with another output in place of its own.
WithOutput(r, output) == [r EXCEPT !.result.output = output]

\* process_eyedropper_preview returns Ok for every kind of output and adds a
\* message for a raster buffer only.
PreviewReturnsOk ==
    \A o \in Outputs, id \in 0..MaxExec :
        /\ process_eyedropper_preview(o, id).ok
        /\ o \notin Buffers => process_eyedropper_preview(o, id).msgs = <<>>

\* C18: preview is best-effort.  process_eyedropper_preview returns Ok for
\* every kind of output; for a preview entry an output that is not a raw
\* raster buffer adds no PreviewImage message and raises no error, the poll
\* goes on, and the entry is retired from the ledger.
C18_PreviewBestEffort ==
    [](/\ PreviewReturnsOk
       /\ \A i \in 1..Len(results) :
             LET r == results[i]
                 b == Before(i)
                 a == After(b, r)
             IN  (Matched(r, b, a) /\ EntryOf(a)[2].render_config.for_eyedropper)
                 => \A o \in Outputs :
                       LET end == After(b, WithOutput(r, o))
                           new == Added(b, end)
                       IN  /\ end.ret = b.ret
                           /\ end.fault = None
                           /\ ~end.stop
                           /\ r.execution_id \notin IdsOf(end.futures)
                           /\ end.hist.matched[1].handled
                           /\ o \notin Buffers =>
                                 \A j \in 1..Len(new) :
                                     new[j].msg # "EyedropperToolMessage::PreviewImage"
                           /\ new[Len(new) - 1].msg = "DeferMessage::TriggerGraphRun")

\* The vector-markup result of a preview was polled: Ok, no PreviewImage, the
\* ledger is empty again.
C18_Witness ==
    /\ hist.matched # <<>>
    /\ hist.matched[1].execution_id = 0
    /\ hist.matched[1].handler = "process_eyedropper_preview"
    /\ hist.matched[1].request.render_config.for_eyedropper
    /\ hist.matched[1].handled
    /\ ret = "Ok"
    /\ futures = <<>>
    /\ current_execution_id = 1
    /\ Len(responses) = 4
    /\ \A j \in 1..Len(responses) :
          responses[j].msg # "EyedropperToolMessage::PreviewImage"

\* C19: side-channel messages (font cache, editor preferences) travel on the
\* request channel without an execution id and are never matched against the
\* ledger: sending one leaves current_execution_id, the ledger, the stored
\* fingerprint and the stored inspect target as they were, and the engine
\* answers only ExecutionRequests.
C19_SideChannelFrame ==
    /\ [](\A i \in 1..Len(requests) :
             IsSideChannel(requests[i]) => "execution_id" \notin DOMAIN requests[i])
    /\ [](/\ \A p \in engine.pending : IsExecutionRequest(p.request)
          /\ \A i \in 1..Len(results) :
                IsExecutionResponse(results[i]) =>
                    /\ IsExecutionRequest(results[i].request)
                    /\ \E j \in 1..Len(hist.sentIds) :
                          hist.sentIds[j] = results[i].execution_id)
    /\ [][(SentNow # <<>> /\ \A j \in 1..Len(SentNow) : IsSideChannel(SentNow[j]))
          => UNCHANGED <<current_execution_id, futures, node_graph_hash,
                         previous_node_to_inspect, toolVars>>]_vars

\* The result of the render of id 0 has been processed; a preferences update
\* went out ahead of the export of id 1, which is the only pending entry.
C19_Witness ==
    /\ Len(requests) = 3
    /\ requests[1].type = "EditorPreferencesUpdate"
    /\ IsGraphUpdate(requests[2])
    /\ IsExecutionRequest(requests[3])
    /\ requests[3].execution_id = 1
    /\ LedgerIds = <<1>>
    /\ hist.processedMax = 0
    /\ fault = None

\* C20: each execution result is consumed once under at-least-once delivery.
\* When the engine answers each execution once and in dispatch order, and the
\* channel delivers a result more than once, the redundant delivery is dropped
\* without a panic.
C20_ConsumedOnce == hist.ordered => fault = None

\* Nothing is on its way: both channels are empty and the engine has answered
\* every execution it accepted.
Quiescent == requests = <<>> /\ results = <<>> /\ engine.pending = {}

\* C21: when the engine answers every dispatched id with success and in
\* submission order and the controller keeps polling, every result is applied
\* by its handler and the ledger empties once dispatching stops, with no
\* entry discarded as stale.  Hence, once every answer has been polled, no
\* entry is left in the ledger and every dispatched id has been matched.
C21_AnsweredLedgerEmpties ==
    (Quiescent /\ fault = None) =>
        /\ futures = <<>>
        /\ hist.sentIds # <<>> => hist.processedMax = hist.sentIds[Len(hist.sentIds)]

\* The messages of one submission are the GraphUpdate, if one is sent, and
\* then the ExecutionRequest.
UpdateThenRequest(sent) ==
    \/ Len(sent) = 1 /\ IsExecutionRequest(sent[1])
    \/ Len(sent) = 2 /\ IsGraphUpdate(sent[1]) /\ IsExecutionRequest(sent[2])

\* C27: within one submission the GraphUpdate, when one is sent, is enqueued
\* before the ExecutionRequest; so the engine, reading in FIFO order, runs each
\* execution against the graph of the last GraphUpdate the controller had sent
\* when it dispatched the execution, never against an older one.
C27_GraphUpdateBeforeRequest ==
    /\ [](\A p \in engine.pending :
             \A d \in hist.dispatched :
                 d.execution_id = p.request.execution_id => p.graph = d.graph)
    /\ [][current_execution_id' # current_execution_id => UpdateThenRequest(SentNow)]_vars

\* Two executions wait in the engine, each with the graph that was sent with
\* it: the engine has replaced the first graph by the second since.
C27_Witness ==
    /\ Cardinality(engine.pending) = 2
    /\ \E p, q \in engine.pending :
          /\ p.request.execution_id = 0
          /\ q.request.execution_id = 1
          /\ p.graph # <<>>
          /\ q.graph # <<>>
          /\ p.graph # q.graph
          /\ engine.graph = q.graph
          /\ q.request.export_file_type # None
    /\ Cardinality(hist.dispatched) = 2

\* C28: the data panel shows a value only for the inspect target the cache
\* holds: no DataPanelMessage::UpdateLayout carries an inspect_result computed
\* for another inspect target than the one stored when the result is polled.
\* (inspect_result names the node whose value it is.)
C28_DataPanelShowsStoredTarget ==
    \A j \in 1..Len(responses) :
        responses[j].msg = "DataPanelMessage::UpdateLayout"
        => responses[j].inspect_result = previous_node_to_inspect

IsTriggerGraphRun(m) == m.msg = "DeferMessage::TriggerGraphRun"
IsDataPanel(m) ==
    m.msg \in {"DataPanelMessage::UpdateLayout", "DataPanelMessage::ClearLayout"}

\* C29: for every execution result whose handler succeeds the router adds
\* exactly one TriggerGraphRun, with the result's id and the document id its
\* ledger entry recorded, and after it exactly one data-panel message:
\* UpdateLayout when the stored inspect target is Some and the result has an
\* inspected value, ClearLayout otherwise.  A failed result and a failed
\* handler add neither.
C29_TriggerGraphRunAndDataPanel ==
    [](\A i \in 1..Len(results) :
           LET r == results[i]
               b == Before(i)
               a == After(b, r)
               added == Added(b, a)
               runs == SelectSeq(added, IsTriggerGraphRun)
               panels == SelectSeq(added, IsDataPanel)
           IN  (Reached(b) /\ IsExecutionResponse(r)) =>
               IF r.result.ok /\ a.fault = None /\ a.hist.matched[1].handled
               THEN /\ runs = <<[msg |-> "DeferMessage::TriggerGraphRun",
                                 execution_id |-> r.execution_id,
                                 document_id |-> EntryOf(a)[2].document_id]>>
                    /\ panels =
                          <<IF previous_node_to_inspect # None /\ r.inspect_result # None
                            THEN [msg |-> "DataPanelMessage::UpdateLayout",
                                  inspect_result |-> r.inspect_result]
                            ELSE Msg("DataPanelMessage::ClearLayout")>>
                    /\ added[Len(added) - 1] = runs[1]
                    /\ added[Len(added)] = panels[1]
               ELSE runs = <<>> /\ panels = <<>>)

\* The render of id 0, dispatched with inspect target X, was polled while X
\* is still the stored target: TriggerGraphRun for id 0, then UpdateLayout.
C29_Witness ==
    /\ Len(responses) >= 2
    /\ responses[Len(responses) - 1] =
          [msg |-> "DeferMessage::TriggerGraphRun", execution_id |-> 0, document_id |-> 1]
    /\ responses[Len(responses)] =
          [msg |-> "DataPanelMessage::UpdateLayout", inspect_result |-> "X"]
    /\ previous_node_to_inspect = "X"
    /\ ret = "Ok"
    /\ futures = <<>>

ExportedName(c, ext) ==
    IF c.artboard_name # None /\ c.artboard_count > 1
    THEN c.name \o " - " \o c.artboard_name \o "." \o ext
    ELSE c.name \o "." \o ext

\* C30: process_export saves vector markup as-is for Svg, hands it to
\* TriggerExportImage with size = size * scale_factor for Png and Jpg, and
\* returns an error without a message for an output that is neither vector
\* markup nor a raster buffer and for a raster buffer exported as Svg; the
\* file name is "<name>.<ext>" with ext svg/png/jpg/svg, and the artboard
\* name is inserted only when there is one and artboard_count > 1.
C30_ExportEncoding ==
    ret # None =>
        LET o == call.node_graph_output
            c == call.export_config
            ext == IF c.file_type = "Png" THEN "png"
                   ELSE IF c.file_type = "Jpg" THEN "jpg" ELSE "svg"
            vector == o.tagged = "RenderOutput" /\ o.data = "Svg"
            buffer == o.tagged = "RenderOutput" /\ o.data = "Buffer"
        IN  /\ (vector /\ c.file_type = "Svg") =>
                  /\ ret = "Ok"
                  /\ responses = <<[msg |-> "FrontendMessage::TriggerSaveFile",
                                     name |-> ExportedName(c, ext),
                                     content |-> o.svg]>>
            /\ (vector /\ c.file_type \in {"Png", "Jpg"}) =>
                  /\ ret = "Ok"
                  /\ Len(responses) = 1
                  /\ responses[1].msg = "FrontendMessage::TriggerExportImage"
                  /\ responses[1].svg = o.svg
                  /\ responses[1].size = <<c.size[1] * c.scale_factor,
                                           c.size[2] * c.scale_factor>>
            /\ ((~vector /\ ~buffer) \/ (buffer /\ c.file_type = "Svg")) =>
                  /\ ret \notin {None, "Ok"}
                  /\ responses = <<>>
            /\ \A j \in 1..Len(responses) :
                  responses[j].name = ExportedName(c, ext)

\* A Png export of vector markup with an artboard name and two artboards has
\* been processed.
C30_Witness ==
    /\ ret = "Ok"
    /\ call.export_config.artboard_name = "A"
    /\ call.export_config.artboard_count = 2
    /\ call.export_config.scale_factor = 2
    /\ Len(responses) = 1
    /\ responses[1].msg = "FrontendMessage::TriggerExportImage"
    /\ responses[1].name = "doc - A.png"
    /\ responses[1].size = <<4, 6>>

----------------------------------------------------------------------------
(* Instrumentation *)

Front(p) == SubSeq(p, 1, Len(p) - 1)

\* The paths of the nodes of a network, nested ones included.
RECURSIVE PathsOf(_)
PathsOf(network) ==
    UNION { {<<id>>} \cup
            (IF network.nodes[id].implementation.kind = "Network"
             THEN {<<id>> \o p : p \in PathsOf(network.nodes[id].implementation.network)}
             ELSE {}) : id \in DOMAIN network.nodes }

RECURSIVE NetworkAt(_, _)
NetworkAt(network, path) ==
    IF path = <<>> THEN network
    ELSE NetworkAt(network.nodes[Head(path)].implementation.network, Tail(path))
NodeAt(network, path) == NetworkAt(network, Front(path)).nodes[path[Len(path)]]

Original == call.network
Rewritten == instrumented[1].network
SubNetworks ==
    {<<>>} \cup {p \in PathsOf(Original) :
                    NodeAt(Original, p).implementation.kind = "Network"}
\* The paths of the monitor nodes the inputs of the node at p read now.
TapsOf(p) ==
    [j \in 1..Len(NodeAt(Rewritten, p).inputs) |->
        Front(p) \o <<NodeAt(Rewritten, p).inputs[j].node_id>>]
Occurrences(identifier) ==
    {p \in PathsOf(Original) :
        NodeAt(Original, p).implementation = ProtoNode(identifier)}

\* C22: after Instrumented::new every input of every node of the original
\* network, at every depth, reads output 0 of a monitor node of its own that
\* was inserted in the same (sub)network and whose single input is the
\* original input; monitor nodes are not tapped, so every (sub)network gains
\* as many nodes as its original nodes had inputs.
C22_EveryInputTapped ==
    instrumented # <<>> =>
        /\ \A p \in PathsOf(Original) :
             LET o == NodeAt(Original, p)
                 r == NodeAt(Rewritten, p)
                 on == NetworkAt(Original, Front(p))
                 rn == NetworkAt(Rewritten, Front(p))
             IN  /\ Len(r.inputs) = Len(o.inputs)
                 /\ r.implementation.kind = o.implementation.kind
                 /\ \A j \in 1..Len(o.inputs) :
                      /\ r.inputs[j].type = "Node"
                      /\ r.inputs[j].output_index = 0
                      /\ r.inputs[j].node_id \notin DOMAIN on.nodes
                      /\ r.inputs[j].node_id \in DOMAIN rn.nodes
                      /\ rn.nodes[r.inputs[j].node_id] =
                            DocumentNode(<<o.inputs[j]>>, ProtoNode(MonitorIdentifier))
                 /\ \A q \in PathsOf(Original) :
                      \A j \in 1..Len(o.inputs), k \in 1..Len(NodeAt(Original, q).inputs) :
                          (Front(q) = Front(p) /\ <<p, j>> # <<q, k>>)
                          => r.inputs[j].node_id # NodeAt(Rewritten, q).inputs[k].node_id
        /\ \A np \in SubNetworks :
             LET on == NetworkAt(Original, np)
                 rn == NetworkAt(Rewritten, np)
             IN  Cardinality(DOMAIN rn.nodes) =
                   Cardinality(DOMAIN on.nodes)
                   + Cardinality({<<id, j>> \in (DOMAIN on.nodes) \X (1..2) :
                                     j <= Len(on.nodes[id].inputs)})

\* A network whose second node is a nested network with two nodes, both
\* levels with inputs, has been instrumented.
C22_Witness ==
    /\ instrumented # <<>>
    /\ <<2, 2>> \in PathsOf(Original)
    /\ Len(NodeAt(Original, <<1>>).inputs) = 2
    /\ Len(NodeAt(Original, <<2>>).inputs) = 1
    /\ Len(NodeAt(Original, <<2, 1>>).inputs) = 2
    /\ Cardinality(DOMAIN Rewritten.nodes) = 5
    /\ Cardinality(DOMAIN NetworkAt(Rewritten, <<2>>).nodes) = 5

\* C23: for every (node path, input index) of the original graph, nested
\* nodes and nodes that are themselves subgraphs included, protonodes_by_path
\* has an entry at the node's path that lists the monitor nodes of its
\* inputs in input order, and grab_protonode_input resolves to that tap.
C23_ByPathCoversEveryNode ==
    instrumented # <<>> =>
        \A p \in PathsOf(Original) :
            /\ p \in DOMAIN instrumented[1].protonodes_by_path
            /\ instrumented[1].protonodes_by_path[p] = TapsOf(p)
            /\ \A i \in QueriedIndexes :
                  i + 1 <= Len(TapsOf(p))
                  => grab_protonode_input(instrumented[1], p, i,
                                          [node_id |-> 0, outcome |-> "ok"])
                       = <<IORecord(TapsOf(p)[i + 1])>>

\* C24: with every monitor node the identity on its single input, the
\* instrumented network evaluates to the same primary output, value or error,
\* as the original network on the same imports.
C24_Transparent ==
    instrumented # <<>> => Eval(Rewritten, Imports) = Eval(Original, Imports)

\* An instrumented network whose first node reads both outputs of a nested
\* network that reads an import, and that evaluates to a value.
C24_Witness ==
    /\ instrumented # <<>>
    /\ <<2, 1>> \in PathsOf(Original)
    /\ NodeAt(Original, <<1>>).inputs = <<node(2, 0), node(2, 1)>>
    /\ NodeAt(Original, <<2>>).implementation.kind = "Network"
    /\ NodeAt(Original, <<2>>).inputs = <<Value("8")>>
    /\ NodeAt(Original, <<2, 1>>).inputs = <<Value("7"), Import(0)>>
    /\ Eval(Original, Imports) = "K(K(7,8,),K(K(7,8,),),)"
    /\ Eval(Rewritten, Imports) = "K(K(7,8,),K(K(7,8,),),)"

\* C25: protonodes_by_name[K] has one entry per occurrence of the proto node
\* kind K in the whole graph, each listing that occurrence's taps in input
\* order; the monitor nodes are not registered; grab_all_input yields at
\* most one value per occurrence.
C25_ByNameOnePerOccurrence ==
    instrumented # <<>> =>
        LET by_name == instrumented[1].protonodes_by_name
            EntriesOf(K) == IF K \in DOMAIN by_name THEN by_name[K] ELSE <<>>
        IN  /\ DOMAIN by_name \subseteq {"K", "L"}
            /\ \A K \in {"K", "L"} :
                  /\ Len(EntriesOf(K)) = Cardinality(Occurrences(K))
                  /\ \A p \in Occurrences(K) :
                        \E k \in 1..Len(EntriesOf(K)) : EntriesOf(K)[k] = TapsOf(p)
            /\ (call.query # <<>> /\ call.query[1].op = "grab_all_input")
                  => Len(ret) <= Cardinality(Occurrences(call.query[1].identifier))

\* K occurs at the top level and twice in the nested network, and input 0 of
\* every occurrence has been read.
C25_Witness ==
    /\ instrumented # <<>>
    /\ Occurrences("K") = {<<1>>, <<2, 1>>, <<2, 2>>}
    /\ call.query # <<>>
    /\ call.query[1].op = "grab_all_input"
    /\ call.query[1].identifier = "K"
    /\ Len(ret) = 3

\* C26: in grab_all_input an occurrence without a tap at the index, with a
\* failed introspection or with a record of unknown shape gives no item and
\* every other occurrence gives its value; grab_protonode_input gives None
\* for an unknown path, an index out of range, a failed introspection and an
\* unknown shape, and the value otherwise; neither panics.
C26_FailuresPerOccurrence ==
    call.query # <<>> =>
        LET q == call.query[1]
            self == instrumented[1]
            entries == IF q.identifier \in DOMAIN self.protonodes_by_name
                       THEN self.protonodes_by_name[q.identifier] ELSE <<>>
            Yields(e) == /\ q.index + 1 <= Len(e)
                         /\ e[q.index + 1][Len(e[q.index + 1])] # q.runtime.node_id
            yielding == SelectSeq(entries, Yields)
        IN  /\ fault = None
            /\ q.op = "grab_all_input" =>
                  /\ Len(ret) = Len(yielding)
                  /\ \A k \in 1..Len(ret) : ret[k] = IORecord(yielding[k][q.index + 1])
            /\ q.op = "grab_protonode_input" =>
                  IF /\ q.path \in DOMAIN self.protonodes_by_path
                     /\ Yields(self.protonodes_by_path[q.path])
                  THEN ret = <<IORecord(self.protonodes_by_path[q.path][q.index + 1])>>
                  ELSE ret = <<>>

\* Input 0 was read for K, which occurs three times; the record of one
\* occurrence's tap has an unknown shape and the other two gave their values.
C26_Witness ==
    /\ call.query # <<>>
    /\ call.query[1].op = "grab_all_input"
    /\ call.query[1].identifier = "K"
    /\ call.query[1].runtime.outcome = "unknown"
    /\ call.query[1].index = 0
    /\ Occurrences("K") = {<<1>>, <<2, 1>>, <<2, 2>>}
    /\ Len(instrumented[1].protonodes_by_name["K"]) = 3
    /\ Len(ret) = 2

----------------------------------------------------------------------------
(* Frame effects of the controller's operations *)

\* C31: an export whose bounding box cannot be computed returns
\* Err("No bounding box") before it sends anything: the request channel, the
\* id counter and the ledger are as they were.
C31_NoBoundingBoxSendsNothing ==
    [][\A h \in NetworkHashes, ft \in ExportFileTypes, d \in DocumentIds :
          submit_document_export(h, ft, FALSE, d) =>
              /\ ret' = "Err: No bounding box"
              /\ requests' = requests
              /\ current_execution_id' = current_execution_id
              /\ futures' = futures]_vars

\* An export without a bounding box has just failed while a render was
\* pending: its request and its ledger entry are the only ones.
C31_Witness ==
    /\ ret = "Err: No bounding box"
    /\ current_execution_id = 1
    /\ Len(futures) = 1
    /\ Len(ExecutionRequestsIn(requests)) = 1
    /\ hist.sentIds = <<0>>

\* The step sent exactly the ExecutionRequest that queue_execution builds
\* from the counter, and the counter went up by one.
QueuedExecution ==
    /\ current_execution_id' = current_execution_id + 1
    /\ Len(ExecutionRequestsIn(SentNow)) = 1
    /\ ExecutionRequestsIn(SentNow)[1].execution_id = current_execution_id

\* What the operations other than update_node_graph leave alone.
ListedFrameEffects ==
    /\ \A d \in DocumentIds :
          submit_current_node_graph_evaluation(d) =>
              /\ UNCHANGED <<node_graph_hash, previous_node_to_inspect, toolVars>>
              /\ GraphUpdatesIn(SentNow) = <<>>
    /\ \A d \in DocumentIds :
          submit_eyedropper_preview(d) =>
              /\ UNCHANGED <<node_graph_hash, previous_node_to_inspect, toolVars>>
              /\ GraphUpdatesIn(SentNow) = <<>>
    /\ \A h \in NetworkHashes, ft \in ExportFileTypes, b \in BOOLEAN, d \in DocumentIds :
          submit_document_export(h, ft, b, d) =>
              UNCHANGED <<node_graph_hash, previous_node_to_inspect, toolVars>>
    /\ poll_node_graph_evaluation =>
          UNCHANGED <<node_graph_hash, previous_node_to_inspect, current_execution_id,
            toolVars>>
    /\ \A h \in NetworkHashes, t \in InspectTargets, ig \in BOOLEAN, d \in DocumentIds :
          submit_node_graph_evaluation(h, t, ig, d) =>
              /\ QueuedExecution
              /\ LET u == update_node_graph(node_graph_hash, previous_node_to_inspect,
                                            h, t, ig)
                 IN  /\ node_graph_hash' = u.node_graph_hash
                     /\ previous_node_to_inspect' = u.previous_node_to_inspect
                     /\ GraphUpdatesIn(SentNow) = u.sent
    /\ current_execution_id' # current_execution_id => QueuedExecution

\* Whether the step is a submit_node_graph_evaluation, the caller of
\* update_node_graph.
CallsUpdateNodeGraph ==
    \E h \in NetworkHashes, t \in InspectTargets, ig \in BOOLEAN, d \in DocumentIds :
        submit_node_graph_evaluation(h, t, ig, d)

\* C32 as stated: only update_node_graph writes node_graph_hash and
\* previous_node_to_inspect, only queue_execution writes current_execution_id,
\* and the other operations leave them alone.
C32_OnlyUpdateNodeGraphWritesCache ==
    [][/\ ListedFrameEffects
       /\ (node_graph_hash' # node_graph_hash
            \/ previous_node_to_inspect' # previous_node_to_inspect)
          => CallsUpdateNodeGraph]_vars

\* C32, amended: node_graph_hash is written by update_node_graph and by the
\* test-only update_node_graph_instrumented, which sets it to a fresh uuid and
\* leaves previous_node_to_inspect and current_execution_id alone;
\* previous_node_to_inspect is written by update_node_graph only, and
\* current_execution_id by queue_execution only; submit_current_node_graph_evaluation,
\* submit_eyedropper_preview, submit_document_export and
\* poll_node_graph_evaluation leave the cache unchanged, the first two send no
\* GraphUpdate, and poll_node_graph_evaluation and update_node_graph leave
\* current_execution_id unchanged.
C32_FrameEffects ==
    [][/\ ListedFrameEffects
       /\ previous_node_to_inspect' # previous_node_to_inspect => CallsUpdateNodeGraph
       /\ node_graph_hash' # node_graph_hash =>
             \/ CallsUpdateNodeGraph
             \/ /\ node_graph_hash' \in Uuids
                /\ \E h \in NetworkHashes :
                    \E o \in TableOrders(DocumentNetwork(h)) :
                      update_node_graph_instrumented(h, node_graph_hash', o)
                /\ UNCHANGED <<previous_node_to_inspect, current_execution_id, toolVars>>]_vars

\* A render with a new inspect target was dispatched, the document was
\* instrumented a second time while that render was pending, and a second
\* execution was dispatched: the cache holds the second uuid and the inspect
\* target update_node_graph adopted, and two ids were handed out.
C32_Witness ==
    /\ instrumented # <<>>
    /\ Cardinality(hist.uuids) = 2
    /\ node_graph_hash \in hist.uuids
    /\ \A u \in hist.uuids : u <= node_graph_hash
    /\ previous_node_to_inspect # None
    /\ current_execution_id = 2
    /\ hist.sentIds = <<0, 1>>
    /\ LedgerIds = <<0, 1>>
    /\ ret = "Ok"

\* C33: update_node_graph adopts the new fingerprint and inspect target
\* before it sends: when the send fails the call returns Err and the cache
\* holds the new values, so the same call repeated with ignore_hash = false
\* finds nothing to send.
C33_CacheAdoptedBeforeSend ==
    [][\A h \in NetworkHashes, t \in InspectTargets, ig \in BOOLEAN, d \in DocumentIds :
          (/\ ~engine.connected
           /\ submit_node_graph_evaluation_closed(h, t, ig, d)
           /\ (h # node_graph_hash \/ t # previous_node_to_inspect \/ ig))
          => /\ ret' = "Err: " \o SendError
             /\ SentNow = <<>>
             /\ node_graph_hash' = h
             /\ previous_node_to_inspect' = t
             /\ update_node_graph(node_graph_hash', previous_node_to_inspect',
                                  h, t, FALSE).sent = <<>>]_vars

\* A render with a new fingerprint and a new inspect target has just failed
\* on the closed channel: the cache holds both and nothing was sent.
C33_Witness ==
    /\ ~engine.connected
    /\ ret = "Err: " \o SendError
    /\ node_graph_hash = 1
    /\ previous_node_to_inspect = "X"
    /\ requests = <<>>
    /\ hist.lastGraphUpdate = <<>>

----------------------------------------------------------------------------
(* Canvas frames *)

\* C34: whenever last_svg_canvas is Some(f), the most recent
\* UpdateDocumentArtwork of process_node_graph_output was the placeholder of
\* f; a CanvasFrame equal to last_svg_canvas adds no UpdateDocumentArtwork, an
\* Svg output adds one and resets last_svg_canvas to None, a Texture adds
\* none; in all three cases the metadata messages are added.
C34_CanvasFrameDeduplication ==
    /\ [](last_svg_canvas # None =>
            /\ hist.artwork # <<>>
            /\ hist.artwork[Len(hist.artwork)] = Placeholder(last_svg_canvas))
    /\ [][\A o \in RenderedOutputs :
             ProcessNodeGraphOutputOf(o) =>
                 LET metadata ==
                         \A name \in {"DocumentMessage::UpdateUpstreamTransforms",
                                       "DocumentMessage::UpdateClickTargets",
                                       "DocumentMessage::UpdateClipTargets"} :
                             \E j \in 1..Len(responses') : responses'[j].msg = name
                 IN  /\ (o.data = "CanvasFrame" /\ last_svg_canvas = o.frame) =>
                           /\ ArtworkIn(responses') = <<>>
                           /\ metadata /\ ret' = "Ok"
                     /\ o.data = "Svg" =>
                           /\ ArtworkIn(responses') = <<o.svg>>
                           /\ last_svg_canvas' = None
                           /\ metadata /\ ret' = "Ok"
                     /\ o.data = "Texture" =>
                           /\ ArtworkIn(responses') = <<>>
                           /\ metadata /\ ret' = "Ok"]_vars

\* Frame F1 was shown, then a texture came, then F1 again: the artwork was
\* sent once and the last call added the metadata messages only.
C34_Witness ==
    /\ call = <<CanvasFrameOutput("F1"), TextureOutput, CanvasFrameOutput("F1")>>
    /\ last_svg_canvas = "F1"
    /\ hist.artwork = <<Placeholder("F1")>>
    /\ responses = RenderMetadataMessages
    /\ ret = "Ok"

----------------------------------------------------------------------------
(* Torch tool *)

\* C35: after any sequence of tool events from the default state, fsm_state
\* is Dragging exactly when selected_node is Some.
C35_DraggingIffSelected ==
    (fsm_state = "Dragging") <=> (tool_data.selected_node # <<>>)

\* A pointer down on the handle of shadow 11 in layer L2 started a
\* drag that picked the node's Light Position input.
C35_Witness ==
    /\ call # <<>>
    /\ call.message = [tool |-> "Torch", event |-> "PointerDown"]
    /\ call.mouse = <<40, 0>>
    /\ fsm_state = "Dragging"
    /\ tool_data.selected_node = <<[layer |-> "L2", node_id |-> 11, input_index |-> 5]>>

\* The handles the Overlays arm draws for a document.
LightHandles(document) ==
    LET drawn == DrawOverlays(document, Visited(document, document.selected))
    IN  {drawn[k] : k \in {j \in 1..Len(drawn) : drawn[j].draw = "manipulator_handle"}}

IsSetInputValue(m) == m.msg = "NodeGraphMessage::SetInputValue"

\* C36: Abort from any state and PointerUp from Dragging lead to Ready;
\* PointerDown in Ready leads to Dragging only if a drop-shadow node with Use
\* Light Source enabled has its light handle within 20 px of the pointer, and
\* otherwise stays Ready; SetInputValue is sent only for PointerMove in
\* Dragging and targets the node and input picked at PointerDown; PointerDown
\* in Dragging, PointerMove and PointerUp in Ready, and Overlays leave
\* fsm_state and selected_node unchanged.
C36_TorchTransitions ==
    [][\A message \in ToolMessages, document \in Documents, mouse \in MousePositions :
          process_message(message, document, mouse) =>
              LET event == IF message.tool = "Torch" THEN message.event ELSE "None"
                  unchanged == /\ fsm_state' = fsm_state
                               /\ tool_data'.selected_node = tool_data.selected_node
                  sent == SelectSeq(responses', IsSetInputValue)
              IN  /\ event = "Abort" => fsm_state' = "Ready"
                  /\ (event = "PointerUp" /\ fsm_state = "Dragging") => fsm_state' = "Ready"
                  /\ (event = "PointerDown" /\ fsm_state = "Ready") =>
                        /\ fsm_state' \in {"Ready", "Dragging"}
                        /\ fsm_state' = "Dragging" =>
                              \E h \in LightHandles(document) :
                                  /\ distance_squared(h.position, mouse) <= 400
                                  /\ tool_data'.selected_node # <<>>
                                  /\ tool_data'.selected_node[1].layer = h.layer
                                  /\ tool_data'.selected_node[1].node_id = h.node_id
                                  /\ document.nodes[h.node_id]
                                         .inputs[tool_data'.selected_node[1].input_index + 1]
                                         .name = "Light Position"
                  /\ event # "PointerDown" =>
                        tool_data'.selected_node \in {tool_data.selected_node, <<>>}
                  /\ sent # <<>> =>
                        /\ event = "PointerMove" /\ fsm_state = "Dragging"
                        /\ tool_data.selected_node # <<>>
                        /\ \A k \in 1..Len(sent) :
                              /\ sent[k].node_id = tool_data.selected_node[1].node_id
                              /\ sent[k].input_index = tool_data.selected_node[1].input_index
                  /\ (event = "PointerDown" /\ fsm_state = "Dragging") => unchanged
                  /\ (event \in {"PointerMove", "PointerUp"} /\ fsm_state = "Ready")
                        => unchanged
                  /\ event = "Overlays" => unchanged]_vars

\* The drag that picked input 5 of node 11 moved on: the pointer move sent the
\* mouse position, in the layer's space, to that input.
C36_Witness ==
    /\ call # <<>>
    /\ call.message = [tool |-> "Torch", event |-> "PointerMove"]
    /\ call.mouse = <<12, 15>>
    /\ call.document.transform_to_viewport["L2"] = <<10, 0>>
    /\ fsm_state = "Dragging"
    /\ tool_data.selected_node = <<[layer |-> "L2", node_id |-> 11, input_index |-> 5]>>
    /\ responses = <<SetInputValue(11, 5, <<2, 15>>)>>

====
